----------------------------- MODULE RestReply -----------------------------
(***************************************************************************)
(* What src/restapi.cpp makes of one reply of the exchange: on_read goes   *)
(* through it line by line with std::getline, up to the first empty line   *)
(* or the end, and posts the last line it saw to on_data, which parses it. *)
(*                                                                         *)
(* A line is what getline returns, without its "\n".  Of its text only     *)
(* this is kept:                                                           *)
(*   "json"   a whole document, with or without a "\r" behind it           *)
(*   "number" a JSON number, as the size of a chunk in decimal digits is,   *)
(*            and the 0 of the last chunk                                  *)
(*   "text"   anything else that is no JSON: the status line, a header,     *)
(*            a size such as 1a3, a part of a document                     *)
(*   "CR"     "\r", which ends the headers, and a chunked body             *)
(*   "empty"  the empty line                                               *)
(***************************************************************************)
EXTENDS Naturals, Sequences

CONSTANTS
  Body \* the bodies that the exchange may send, in lines

Framing == {"length", "chunked"}

Line == {"json", "number", "text", "CR", "empty"}

ASSUME ReplyAssumption == Body \subseteq Seq(Line)

VARIABLES
  framing,  \* how the exchange marks the end of the body
  body,     \* the lines it sends between the headers and that end
  lines,    \* what has arrived when async_read_until completes
  next,     \* the line that getline returns next
  data_str, \* the last line that the loop saw; "empty" before the first
  pc,       \* "loop", "on_data" when that is posted, "cached"
  json      \* the data of the message: "object", "number", or "null"

replyVars == <<framing, body, lines, next, data_str, pc, json>>

Headers == <<"text", "text", "CR">>

(* Chunks: each is a line with its size and lines of data, the last of     *)
(* which ends with "\r\n" and so is not empty.                             *)
IsChunks(b) == b # <<>> => Len(b) > 1 /\ b[1] \in {"text", "number"} /\ b[Len(b)] # "empty"

(* What ends a reply: nothing when its length is given, or the last chunk  *)
End(f) == IF f = "length" THEN <<>> ELSE <<"number", "CR">>

Whole(f, b) == Headers \o (b \o End(f))

(* What is left of a line that is cut short: never a document              *)
Parts(line) ==
  CASE line = "json" -> {"text"}
    [] line \in {"text", "number"} -> {"text", "number"}
    [] OTHER -> {}

(* What may have arrived of a reply: some lines, the last perhaps cut.     *)
Arrived(all) ==
  {SubSeq(all, 1, n) : n \in 0 .. Len(all)} \cup
  UNION {{Append(SubSeq(all, 1, n - 1), part) : part \in Parts(all[n])} : n \in 1 .. Len(all)}

-----------------------------------------------------------------------------
(* on_write's async_read_until has read to "\r\n0\r\n\r\n", or the         *)
(* exchange has closed the connection, at the end of the reply or sooner.  *)
ReplyInit ==
  /\ framing \in Framing
  /\ body \in Body
  /\ framing = "chunked" => IsChunks(body)
  /\ lines \in Arrived(Whole(framing, body))
  /\ next = 1
  /\ data_str = "empty"
  /\ pc = "loop"
  /\ json = "null"

(* Mutant of GetLine: the loop keeps the first line.                       *)
GetFirstLine ==
  /\ pc = "loop" /\ next \in DOMAIN lines /\ lines[next] # "empty"
  /\ data_str' = IF data_str = "empty" THEN lines[next] ELSE data_str
  /\ next' = next + 1
  /\ UNCHANGED <<framing, body, lines, pc, json>>

(* Another: the "\r" that ends the headers does not become the data.       *)
GetLineSkipsCR ==
  /\ pc = "loop" /\ next \in DOMAIN lines /\ lines[next] # "empty"
  /\ data_str' = IF lines[next] # "CR" THEN lines[next] ELSE data_str
  /\ next' = next + 1
  /\ UNCHANGED <<framing, body, lines, pc, json>>

(* The loop of on_read: one more line, not empty                           *)
GetLine ==
  /\ pc = "loop" /\ next \in DOMAIN lines /\ lines[next] # "empty"
  /\ data_str' = lines[next]
  /\ next' = next + 1
  /\ UNCHANGED <<framing, body, lines, pc, json>>

(* The end, or an empty line: post on_data(data_str).                      *)
LoopEnds ==
  /\ pc = "loop" /\ (next \in DOMAIN lines => lines[next] = "empty")
  /\ pc' = "on_data"
  /\ UNCHANGED <<framing, body, lines, next, data_str, json>>

(* What the parser makes of a line                                         *)
Parsed(line) == CASE line = "json" -> "object" [] line = "number" -> "number" [] OTHER -> "null"

(* on_data: parseJsonString turns what is no JSON into null, the message   *)
(* has a type, a source and data, so it is valid(), and is cached.         *)
OnData ==
  /\ pc = "on_data"
  /\ json' = Parsed(data_str)
  /\ pc' = "cached"
  /\ UNCHANGED <<framing, body, lines, next, data_str>>

ReplyNext == GetLine \/ LoopEnds \/ OnData

ReplySpec == ReplyInit /\ [][ReplyNext]_replyVars

-----------------------------------------------------------------------------
(* on_read keeps the line before the first empty one, or the last line of  *)
(* all, of whatever has arrived: nothing of what lies between counts.      *)
LastLineBeforeGap ==
  pc # "loop" =>
    \/ \E n \in DOMAIN lines :
         /\ data_str = lines[n]
         /\ \A i \in 1 .. n : lines[i] # "empty"
         /\ n < Len(lines) => lines[n + 1] = "empty"
    \/ data_str = "empty" /\ (lines = <<>> \/ lines[1] = "empty")

(* The loop keeps line n of the body of a whole reply: no line up to it is *)
(* empty, and the next is, or there is no more.                            *)
Kept(n) ==
  /\ \A i \in 1 .. n : body[i] # "empty"
  /\ IF n < Len(body) THEN body[n + 1] = "empty" ELSE framing = "length"

(* A whole reply yields its document just if that is the last line of a    *)
(* body whose length is given, or an empty line follows it in the body; a  *)
(* number in that place yields a number.  All others yield null: documents *)
(* of several lines, and all chunked replies in which no empty line comes  *)
(* first.  The message is cached all the same, and the callback of the     *)
(* REST source is called with null.                                        *)
WhichRepliesAreRead ==
  pc = "cached" /\ lines = Whole(framing, body) =>
    /\ json = "object" <=> \E n \in DOMAIN body : body[n] = "json" /\ Kept(n)
    /\ json = "number" <=> \E n \in DOMAIN body : body[n] = "number" /\ Kept(n)
=============================================================================
