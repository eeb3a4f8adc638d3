--------------------------- MODULE SharedExclusive ---------------------------
(***************************************************************************)
(* What every reader-writer lock promises: any number of readers or one    *)
(* writer, never both.  Queueing, preference and timeouts do not appear.   *)
(***************************************************************************)
CONSTANT Threads

VARIABLES reading,   (* threads inside a read section  *)
          writing    (* threads inside a write section *)

rwVars == <<reading, writing>>

RWInit == reading = {} /\ writing = {}

StartReading(t) == /\ writing = {}
                   /\ reading' = reading \cup {t}
                   /\ UNCHANGED writing

StopReading(t) == /\ t \in reading
                  /\ reading' = reading \ {t}
                  /\ UNCHANGED writing

StartWriting(t) == /\ reading = {}
                   /\ writing = {}
                   /\ writing' = {t}
                   /\ UNCHANGED reading

StopWriting(t) == /\ t \in writing
                  /\ writing' = writing \ {t}
                  /\ UNCHANGED reading

(* The only reader becomes the writer without letting go in between. *)
Upgrade(t) == /\ reading = {t}
              /\ writing = {}
              /\ writing' = {t}
              /\ reading' = {}

RWNext == \E t \in Threads : \/ StartReading(t) \/ StopReading(t)
                             \/ StartWriting(t) \/ StopWriting(t)
                             \/ Upgrade(t)

RWSpec == RWInit /\ [][RWNext]_rwVars
=============================================================================
