----------------------------- MODULE MCRequest -----------------------------
(* SETTINGS for RequestAdapter: none, some, one twice, 0, an unknown one.  *)
EXTENDS RequestAdapter

SomeDefault == [id \in SettingIds |->
  CASE id = "HEADER_TABLE_SIZE" -> 2 [] id = "MAX_FRAME_SIZE" -> 8
    [] id = "MAX_HEADER_LIST_SIZE" -> 100 [] id = "INITIAL_WINDOW_SIZE" -> 3 [] OTHER -> 0]

Set(id, val) == [id |-> id, val |-> val]

SomeSettings ==
  {<< >>,
   <<Set("MAX_HEADER_LIST_SIZE", 12), Set("MAX_FRAME_SIZE", 9)>>,
   <<Set("HEADER_TABLE_SIZE", 3), Set("MAX_CONCURRENT_STREAMS", 0)>>,
   <<Set("HEADER_TABLE_SIZE", 2), Set("OTHER", 1), Set("HEADER_TABLE_SIZE", 1)>>,
   <<Set("INITIAL_WINDOW_SIZE", 4), Set("MAX_CONCURRENT_STREAMS", 1),
     Set("HEADER_TABLE_SIZE", 0), Set("INITIAL_WINDOW_SIZE", 2)>>}
=============================================================================
