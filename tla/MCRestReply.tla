---------------------------- MODULE MCRestReply ----------------------------
(***************************************************************************)
(* Model-checking instances of RestReply.                                  *)
(***************************************************************************)
EXTENDS RestReply, SequencesExt

(* Every body of up to four lines, so of up to two chunks.                 *)
ShortBodies == SeqOf(Line, 4)
=============================================================================
