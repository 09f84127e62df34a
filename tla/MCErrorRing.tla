---------------------------- MODULE MCErrorRing ----------------------------
(* Small instances of ErrorRing: the errors a document can raise.          *)
EXTENDS ErrorRing

Err(id, level, kind) == [id |-> id, level |-> level, kind |-> kind]

MCNoError == [id |-> "OK", level |-> "none", kind |-> "plain"]

(* For the ring: a fatal error and a warning, which the thread may mute.   *)
MCRingErrors == {Err("b", "fatal", "plain"), Err("w", "warning", "plain")}

(* For limits and repeats: more errors than the repeat table has entries,  *)
(* one of which stops the parser.                                          *)
MCErrors ==
  {Err("a", "error", "plain"), Err("b", "fatal", "plain"),
   Err("loop", "fatal", "stop")}
=============================================================================
