---------------------------- MODULE ReadersWriters ----------------------------
(***************************************************************************)
(* What the readers-writer lock of the system library promises: any number *)
(* of readers or one writer; a reader becomes the writer only as the sole  *)
(* reader, and a writer becomes a reader without letting anyone in between.*)
(* Module RWLock implements it.                                            *)
(***************************************************************************)
CONSTANT Threads

VARIABLES readers, writers

vars == <<readers, writers>>

Init == readers = {} /\ writers = {}

AcquireR(t) ==
    /\ t \notin readers
    /\ writers = {}
    /\ readers' = readers \cup {t}
    /\ UNCHANGED writers

ReleaseR(t) ==
    /\ t \in readers
    /\ readers' = readers \ {t}
    /\ UNCHANGED writers

AcquireW(t) ==
    /\ readers = {}
    /\ writers = {}
    /\ writers' = {t}
    /\ UNCHANGED readers

ReleaseW(t) ==
    /\ writers = {t}
    /\ writers' = {}
    /\ UNCHANGED readers

Upgrade(t) ==
    /\ readers = {t}
    /\ writers = {}
    /\ readers' = {}
    /\ writers' = {t}

Downgrade(t) ==
    /\ readers = {}
    /\ writers = {t}
    /\ readers' = {t}
    /\ writers' = {}

Next ==
    \E t \in Threads :
        \/ AcquireR(t) \/ ReleaseR(t)
        \/ AcquireW(t) \/ ReleaseW(t)
        \/ Upgrade(t)  \/ Downgrade(t)

Spec == Init /\ [][Next]_vars
=============================================================================
