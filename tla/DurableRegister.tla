--------------------------- MODULE DurableRegister ---------------------------
(***************************************************************************)
(* What a profile on disk promises: a session starts from the value saved  *)
(* last; when the machine stopped before a save was known to be on the     *)
(* disk, from that one, from the one before it, or from one in between.    *)
(* Never from a mixture of two, and never from nothing at all.             *)
(***************************************************************************)
EXTENDS Naturals, Sequences

CONSTANTS Values,   \* what may be saved
          Default   \* what a first session starts from

VARIABLES log,  \* the value known to be on the disk, then the ones saved since
          mem   \* what the session holds: <<value>>, or <<>> without a session

vars == <<log, mem>>

Init == log = <<Default>> /\ mem = <<>>

\* A session starts from the last value.
Start == mem = <<>> /\ mem' = <<log[Len(log)]>> /\ UNCHANGED log

\* A session that works in memory only.
StartEmpty == mem = <<>> /\ mem' = <<Default>> /\ UNCHANGED log

Change == mem # <<>> /\ Len(mem') = 1 /\ mem'[1] \in Values /\ UNCHANGED log

Save == mem # <<>> /\ log' = Append(log, mem[1]) /\ UNCHANGED mem

\* Some of the saves become known to be on the disk.
Sync == (\E k \in 1 .. Len(log) : log' = SubSeq(log, k, Len(log))) /\ UNCHANGED mem

Stop == mem' = <<>> /\ UNCHANGED log

\* The machine stops: some of the last saves are lost.
Crash ==
    /\ mem' = <<>>
    /\ \E k \in 1 .. Len(log) : log' = <<log[k]>>

Next == Start \/ StartEmpty \/ Change \/ Save \/ Sync \/ Stop \/ Crash

Spec == Init /\ [][Next]_vars
=============================================================================
