----------------------------- MODULE MCStreams -----------------------------
(* Small instances of Streams.                                             *)
EXTENDS Streams

(* A HEADERS frame and one DATA frame.                                     *)
UnaryRequests == {<<0, 1>>}

(* A HEADERS frame and two DATA frames, larger together than the window.   *)
LongRequests == {<<0, 2, 1>>}

SomeRequests == UnaryRequests \cup LongRequests
=============================================================================
