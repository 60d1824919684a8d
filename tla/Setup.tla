------------------------------- MODULE Setup -------------------------------
(***************************************************************************)
(* The setup of a connection: NewLoader sends the preface, reads the       *)
(* SETTINGS of the server, answers them, and takes the limits of the       *)
(* sender from them.  A value of 0 is taken for a setting that was not     *)
(* announced.                                                              *)
(***************************************************************************)
EXTENDS Integers, Sequences, SequencesExt

CONSTANTS
  Announced,   \* SETTINGS frames: sequences of settings, an id and a value each
  Default      \* the limit without an announcement, by id; 0 is none

SettingIds == {"HEADER_TABLE_SIZE", "MAX_CONCURRENT_STREAMS", "INITIAL_WINDOW_SIZE",
               "MAX_FRAME_SIZE", "MAX_HEADER_LIST_SIZE"}

ASSUME DefaultAssumption == Default \in [SettingIds -> Nat]
ASSUME AnnouncedAssumption ==
  \A sf \in Announced : \A k \in DOMAIN sf : sf[k].val \in Nat

VARIABLES
  setup,     \* setupHTTP2: program counter
  settings,  \* the server's SETTINGS
  conf       \* loaderConfig

setupVars == <<setup, settings, conf>>

SetupInit ==
  /\ setup = "preface" /\ settings = << >>
  /\ conf = [id \in SettingIds |-> 0]

WritePreface ==
  /\ setup = "preface"
  /\ setup' = "read"
  /\ UNCHANGED <<settings, conf>>

(* Mutant of Configure: the first value of a setting counts.               *)
ConfigureFirst(sf) ==
  [id \in SettingIds |->
     LET at == {k \in DOMAIN sf : sf[k].id = id}
     IN IF at = {} THEN 0 ELSE sf[CHOOSE k \in at : \A j \in at : k <= j].val]

(* Settings are assigned one after the other, so the last value counts;    *)
(* unknown ones are skipped.                                               *)
Configure(sf) ==
  [id \in SettingIds |->
     LET at == {k \in DOMAIN sf : sf[k].id = id}
     IN IF at = {} THEN 0 ELSE sf[CHOOSE k \in at : \A j \in at : j <= k].val]

ReadSettings(sf) ==
  /\ setup = "read"
  /\ settings' = sf
  /\ conf' = Configure(sf)
  /\ setup' = "answer"

(* The client's SETTINGS, which are empty, and the ack.                    *)
WriteSettings ==
  /\ setup = "answer"
  /\ setup' = "done"
  /\ UNCHANGED <<settings, conf>>

(* A write or the read fails, the deadline passes, or the first frame is   *)
(* not SETTINGS: there is no loader.                                       *)
SetupFails ==
  /\ setup \in {"preface", "read", "answer"}
  /\ setup' = "failed"
  /\ UNCHANGED <<settings, conf>>

SetupNext == WritePreface \/ (\E sf \in Announced : ReadSettings(sf)) \/ WriteSettings \/ SetupFails

Least(m, n) == IF m < n THEN m ELSE n

(* newLoader: what the sender keeps to.  The HPACK encoder does not make   *)
(* its table larger than the default.                                      *)
Limit(id) ==
  IF conf[id] = 0 THEN Default[id]
  ELSE IF id = "HEADER_TABLE_SIZE" THEN Least(conf[id], Default[id]) ELSE conf[id]

-----------------------------------------------------------------------------
Announces(id) == \E k \in DOMAIN settings : settings[k].id = id

(* What the server holds the client to: settings apply in order.           *)
ServerLimit(id) ==
  FoldLeft(LAMBDA v, s : IF s.id = id THEN s.val ELSE v, Default[id], settings)

(* The client's limits are within those of the server, however often it    *)
(* announces a setting and in whatever order, unless it announces 0.       *)
SettingsObeyed ==
  setup = "done" =>
    \A id \in SettingIds :
      \/ ~ Announces(id) /\ Limit(id) = Default[id]
      \/ Announces(id) /\ ServerLimit(id) = 0
      \/ Limit(id) \in 1 .. ServerLimit(id)
=============================================================================
