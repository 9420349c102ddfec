---------------------------- MODULE MCSequential ----------------------------
(***************************************************************************)
(* Model-checking instances of the two algorithms in which one thread      *)
(* takes part: the ring's index arithmetic, and the reading of one reply.  *)
(* They share nothing.  Each is checked for all its inputs beside one      *)
(* simple input of the other: a ring of one slot, a reply without lines.   *)
(***************************************************************************)
EXTENDS MCRingArithmetic, MCRestReply

SequentialInit ==
  \/ asked = 1 /\ RingInit /\ ReplyInit
  \/ framing = "length" /\ body = <<>> /\ lines = <<>> /\ RingInit /\ ReplyInit

RingSteps == RingNext /\ UNCHANGED replyVars

ReplySteps == ReplyNext /\ UNCHANGED ringVars

SequentialSpec ==
  SequentialInit /\ [][RingSteps \/ ReplySteps]_<<ringVars, replyVars>>
=============================================================================
