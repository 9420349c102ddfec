--------------------------- MODULE Configuration ---------------------------
(***************************************************************************)
(* Client::Config::load_config of src/client.cpp: the two .ini files are   *)
(* read line by line, and setup_callback or subscription_callback is       *)
(* called for each `name = value'.                                         *)
(*                                                                         *)
(* Only what decides which connections are made is kept: the numbers of    *)
(* replicas, which nothing initialises, and how many subscriptions there   *)
(* are.  All other lines, known names or unknown, change neither, and so   *)
(* does a malformed one: ini_parse returns its number, which is positive,  *)
(* and only a negative result is an error.                                 *)
(***************************************************************************)
EXTENDS Integers, Sequences

CONSTANTS
  Number,          \* the numbers that setup.ini may have
  Uninitialised,   \* what the memory of an int may hold
  MaxLines,        \* bound: the lines of setup.ini that set replicas
  MaxSubscriptions \* bound: the lines of subscription.ini

Kind == {"restapi", "websocket"}

ASSUME ConfigurationAssumption ==
  /\ Number \subseteq Int
  /\ Uninitialised \subseteq Int
  /\ MaxLines \in Nat
  /\ MaxSubscriptions \in Nat

VARIABLES
  phase,         \* what the program's main thread is at
  replicas,      \* setup.replicas_restapi and setup.replicas_ws
  subscriptions, \* the number of subscriptions
  lines          \* history: the lines of setup.ini that set replicas

configVars == <<phase, replicas, subscriptions, lines>>

-----------------------------------------------------------------------------
ConfigInit ==
  /\ phase = "setup.ini"
  /\ replicas \in [Kind -> Uninitialised]
  /\ subscriptions = 0
  /\ lines = <<>>

(* Mutant of SetReplicas: the section is not compared.                     *)
SetReplicasAnySection ==
  /\ phase = "setup.ini"
  /\ Len(lines) < MaxLines
  /\ \E k \in Kind, n \in Number :
       /\ replicas' = [j \in Kind |-> n]
       /\ lines' = Append(lines, [kind |-> k, number |-> n])
  /\ UNCHANGED <<phase, subscriptions>>

(* setup_callback("restapi" or "websocket", "replicas", value)             *)
SetReplicas ==
  /\ phase = "setup.ini"
  /\ Len(lines) < MaxLines
  /\ \E k \in Kind, n \in Number :
       /\ replicas' = [replicas EXCEPT ![k] = n]
       /\ lines' = Append(lines, [kind |-> k, number |-> n])
  /\ UNCHANGED <<phase, subscriptions>>

(* The value is no number, and std::stoi throws; or a file cannot be       *)
(* opened, and load_config throws.  There is no client yet.                *)
LoadThrows ==
  /\ \/ phase = "setup.ini"
     \/ phase = "subscription.ini" /\ subscriptions = 0
  /\ phase' = "terminated"
  /\ UNCHANGED <<replicas, subscriptions, lines>>

SetupEnds ==
  /\ phase = "setup.ini"
  /\ phase' = "subscription.ini"
  /\ UNCHANGED <<replicas, subscriptions, lines>>

(* subscription_callback: each line is a subscription of its own, also     *)
(* when its section or name repeats.                                       *)
Subscribe ==
  /\ phase = "subscription.ini"
  /\ subscriptions < MaxSubscriptions
  /\ subscriptions' = subscriptions + 1
  /\ UNCHANGED <<phase, replicas, lines>>

(* load_config returns, and the Client is constructed with its result.     *)
Construct ==
  /\ phase = "subscription.ini"
  /\ phase' = "constructed"
  /\ UNCHANGED <<replicas, subscriptions, lines>>

ConfigNext == SetReplicas \/ LoadThrows \/ SetupEnds \/ Subscribe \/ Construct

-----------------------------------------------------------------------------
(* The last line of setup.ini that sets the replicas of kind k sets n.     *)
Configured(k, n) ==
  \E i \in DOMAIN lines :
    /\ lines[i] = [kind |-> k, number |-> n]
    /\ \A j \in i + 1 .. Len(lines) : lines[j].kind # k
=============================================================================
