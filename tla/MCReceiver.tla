----------------------------- MODULE MCReceiver -----------------------------
(* Small instances of Receiver: words and headers of two bytes, and the    *)
(* byte 2, which is malformed in headers.                                  *)
EXTENDS Receiver

F(type, id, flag, payload) == [type |-> type, id |-> id, flag |-> flag, payload |-> payload]

(* One stream that is known and one that is not; payloads that are all     *)
(* different, empty ones among them.                                       *)
SomeFrames ==
  {F("PING", 0, FALSE, <<0, 1, 1>>),
   F("DATA", 3, FALSE, <<1, 1>>), F("DATA", 3, TRUE, <<0, 1, 1>>),
   F("HEADERS", 3, FALSE, <<1, 0>>), F("HEADERS", 3, TRUE, <<1>>),
   F("HEADERS", 5, TRUE, <<1, 2>>),
   F("RST", 3, FALSE, <<1, 0>>),
   F("WINDOW_UPDATE", 0, FALSE, <<0, 1>>), F("WINDOW_UPDATE", 3, FALSE, <<1, 1>>),
   F("WINDOW_UPDATE", 5, FALSE, <<1, 0>>),
   F("GOAWAY", 0, FALSE, <<1, 0, 0, 1, 1>>),
   F("SETTINGS", 0, TRUE, << >>), F("SETTINGS", 0, FALSE, <<1>>),
   F("PRIORITY", 3, FALSE, <<0>>), F("UNKNOWN", 0, FALSE, <<1>>)}
=============================================================================
