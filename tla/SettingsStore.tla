---------------------------- MODULE SettingsStore ----------------------------
(***************************************************************************)
(* What the firmware makes of its settings, whatever its main loop and its   *)
(* interrupts do in between and whenever power is lost:                     *)
(*                                                                         *)
(*   - The store holds a whole configuration, nothing, or the beginning of   *)
(*     one whose save was cut off.                                          *)
(*   - At power-up the configuration in the store becomes the live one; an   *)
(*     empty store gives the defaults, and of a torn one each setting is     *)
(*     the saved one, erased flash or a default.                            *)
(*   - Nothing but the live configuration is ever saved, and it does not     *)
(*     change until the next power-up.                                      *)
(***************************************************************************)
EXTENDS Config

VARIABLES
  store,  \* kind of content, and the configuration it is or began with
  live    \* the configuration of the main loop, NoConfig while it has none

Configs == [eeprom_version : Byte, max_ramp : Byte,
            dir_reversed : Byte, bi_direction : Byte]

Fields == {"eeprom_version", "max_ramp", "dir_reversed", "bi_direction"}

(* Not a configuration. *)
NoConfig == [f \in Fields |-> 256]

Defaults == ApplyVersionDefaults([f \in Fields |-> 0])

Loaded(c) == IF IsValid(c) THEN ApplyVersionDefaults(c) ELSE Defaults

Stored == [kind : {"whole", "blank", "torn"}, of : Configs]

TypeOK ==
  /\ store \in Stored
  /\ live \in Configs \cup {NoConfig}

Init ==
  /\ store \in Stored
  /\ store.kind # "torn"
  /\ live = NoConfig

PowerUp ==
  /\ live = NoConfig
  /\ live' \in Configs
  /\ CASE store.kind = "whole" -> live' = Loaded(store.of)
       [] store.kind = "blank" -> live' = Defaults
       [] store.kind = "torn"  ->
            \A f \in Fields : live'[f] \in {store.of[f], ErasedByte, Defaults[f]}
  /\ store' = store

PowerLoss == live # NoConfig /\ live' = NoConfig /\ store' = store

Erase ==
  /\ live # NoConfig
  /\ store' = [kind |-> "blank", of |-> live]
  /\ live' = live

Begin ==
  /\ live # NoConfig
  /\ store = [kind |-> "blank", of |-> live]
  /\ store' = [kind |-> "torn", of |-> live]
  /\ live' = live

Finish ==
  /\ live # NoConfig
  /\ store = [kind |-> "torn", of |-> live]
  /\ store' = [kind |-> "whole", of |-> live]
  /\ live' = live

Next == PowerUp \/ PowerLoss \/ Erase \/ Begin \/ Finish

vars == <<store, live>>

Spec == Init /\ [][Next]_vars

=============================================================================
