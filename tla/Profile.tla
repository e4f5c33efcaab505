------------------------------- MODULE Profile -------------------------------
(***************************************************************************)
(* The persisted profile: the model of preferences, bookmarks and history  *)
(* (src/prefs.c), its text form, the sealed file it is kept in             *)
(* (src/disk_store.c over src/local_store.c), the key file of the device   *)
(* and the opening of both (src/profile.c), and what the window does with  *)
(* them (gui/browser_ui.c).                                                *)
(*                                                                         *)
(* The file system keeps its directory in memory until it is told to sync  *)
(* it: a rename is seen at once and survives a stop of the machine only    *)
(* once the directory was synced, in the order the renames were made in.   *)
(* A file renamed before its bytes were synced is found damaged.           *)
(***************************************************************************)
EXTENDS Naturals, Sequences, SequencesExt

CONSTANTS URLs,        \* pages
          Zooms,       \* values of a setting, and
          DefaultZoom, \* the one a first session has
          MaxHistory,  \* PREFS_MAX_HISTORY
          MaxBookmarks,\* PREFS_MAX_BOOKMARKS
          Keys,        \* device keys the random generator gives, in order
          MaxChanges,  \* bound: changes of the preferences
          Sessions     \* bound: sessions

ProfileAssumption ==
    /\ DefaultZoom \in Zooms /\ {MaxHistory, MaxBookmarks} \subseteq Nat \ {0}
    /\ Keys \in Seq(Nat) /\ {MaxChanges, Sessions} \subseteq Nat

VARIABLES
    prefs,    \* w->prefs with the window's setting mirrored into it
    key,      \* the key of the session, or 0
    rw,       \* profile_rw
    pc,       \* "off", "open", "mkkey", "load", "idle", then the steps of a save
    quitting, \* the save under way is the last one of the session
    ddir,     \* the directory on the disk
    log,      \* renames not yet known to be on the disk
    tmp,      \* the temporary file being written
    nkey,     \* keys generated
    sessions, \* sessions started
    changes   \* changes made

vars == <<prefs, key, rw, pc, quitting, ddir, log, tmp, nkey, sessions, changes>>

(*------------------------- preferences and text --------------------------*)

\* prefs_init.  "visits" is kept for the properties alone: the pages visited
\* since the history was last emptied, the last one first.
Defaults ==
    [zoom |-> DefaultZoom, rem |-> TRUE, bookmarks |-> <<>>, history |-> <<>>,
     visits |-> <<>>]

\* (an entry visited again that is only put in front)
HistoryAddTwice(h, u) ==
    <<u>> \o SubSeq(h, 1, IF Len(h) >= MaxHistory THEN Len(h) - 1 ELSE Len(h))

\* prefs_history_add: to the front, once, the oldest falls out.
HistoryAdd(h, u) ==
    LET at == SelectInSeq(h, LAMBDA x : x = u)
        rest == IF at # 0 THEN RemoveAt(h, at)
                ELSE IF Len(h) >= MaxHistory THEN Front(h) ELSE h
    IN <<u>> \o rest

\* prefs_bookmark_toggle: a full list refuses.
BookmarkToggle(b, u) ==
    LET at == SelectInSeq(b, LAMBDA x : x = u)
    IN IF at # 0 THEN RemoveAt(b, at)
       ELSE IF Len(b) >= MaxBookmarks THEN b ELSE Append(b, u)

\* prefs_format: one line for each setting, bookmark and page of the history.
Format(p) ==
    <<[is |-> "zoom", of |-> p.zoom], [is |-> "remhist", of |-> p.rem]>>
    \o [k \in 1 .. Len(p.bookmarks) |-> [is |-> "b", of |-> p.bookmarks[k]]]
    \o [k \in 1 .. Len(p.history) |-> [is |-> "h", of |-> p.history[k]]]

\* prefs_parse: a line at a time over the defaults; a bookmark or page already
\* there, or past the bound, is skipped, and the history keeps its order.
ParseLine(p, l) ==
    CASE l.is = "zoom" -> [p EXCEPT !.zoom = l.of]
      [] l.is = "remhist" -> [p EXCEPT !.rem = l.of]
      [] l.is = "b" ->
           IF Contains(p.bookmarks, l.of) \/ Len(p.bookmarks) >= MaxBookmarks THEN p
           ELSE [p EXCEPT !.bookmarks = Append(@, l.of)]
      [] l.is = "h" ->
           IF Contains(p.history, l.of) \/ Len(p.history) >= MaxHistory THEN p
           ELSE [p EXCEPT !.history = Append(@, l.of)]

Parse(text) ==
    LET upTo[k \in 0 .. Len(text)] ==
            IF k = 0 THEN Defaults ELSE ParseLine(upTo[k - 1], text[k])
    IN upTo[Len(text)]

(*----------------------------- the directory -----------------------------*)

Absent == [is |-> "absent"]
Damaged == [is |-> "damaged"]

\* The key file, and a sealed file: its text and the key it opens with.
KeyFile(k) == [is |-> "key", key |-> k]
Sealed(k, p) == [is |-> "sealed", key |-> k, text |-> Format(p), visits |-> p.visits]

\* A directory after the first n renames of the log.
After(d, l, n) ==
    [f \in DOMAIN d |->
        LET mine == {k \in 1 .. n : l[k].file = f}
        IN IF mine = {} THEN d[f] ELSE l[Max(mine)].content]

Visible == After(ddir, log, Len(log))

\* ls_open of prefs.bin: the key must be the one it was sealed with, and the
\* text is parsed.
Opens(d, k) == d.prefs.is = "sealed" /\ d.prefs.key = k
ReadPrefs(d) == [Parse(d.prefs.text) EXCEPT !.visits = d.prefs.visits]

Init ==
    /\ prefs = Defaults /\ key = 0 /\ rw = FALSE /\ pc = "off" /\ quitting = FALSE
    /\ ddir = [f \in {"key", "prefs"} |-> Absent] /\ log = <<>>
    /\ tmp = Absent /\ nkey = 0 /\ sessions = 0 /\ changes = 0

(*------------------------------ the session ------------------------------*)

Launch ==
    /\ pc = "off" /\ sessions < Sessions
    /\ pc' = "open" /\ sessions' = sessions + 1
    /\ UNCHANGED <<prefs, key, rw, quitting, ddir, log, tmp, nkey, changes>>

\* profile_open: the key of the device is read, or made when there is none.
\* The file may not open for another reason, which ends in "refused".
OpenKeyOr(refused) ==
    /\ pc = "open"
    /\ \/ Visible.key.is = "key" /\ key' = Visible.key.key /\ pc' = "load"
       \/ Visible.key.is = "absent" /\ pc' = "mkkey" /\ UNCHANGED key
       \/ pc' = refused /\ UNCHANGED key
    /\ UNCHANGED <<prefs, rw, quitting, ddir, log, tmp, nkey, sessions, changes>>

\* A key file that is there and not readable is never replaced: the session
\* works in memory.
OpenKey == OpenKeyOr("idle")

\* keyfile_create: written, synced and renamed; the directory is not synced.
MakeKey ==
    /\ pc = "mkkey" /\ nkey < Len(Keys)
    /\ nkey' = nkey + 1
    /\ key' = Keys[nkey + 1]
    /\ log' = Append(log, [file |-> "key", content |-> KeyFile(Keys[nkey + 1])])
    /\ pc' = "load"
    /\ UNCHANGED <<prefs, rw, quitting, ddir, tmp, sessions, changes>>

MakeKeyFails ==
    /\ pc = "mkkey"
    /\ pc' = "idle"
    /\ UNCHANGED <<prefs, key, rw, quitting, ddir, log, tmp, nkey, sessions, changes>>

\* profile_load: no file is a first launch; one that cannot be read or does not
\* open leaves the defaults and forbids saving.
Load ==
    /\ pc = "load"
    /\ pc' = "idle"
    /\ \/ /\ rw' = (Visible.prefs.is = "absent" \/ Opens(Visible, key))
          /\ prefs' = IF Opens(Visible, key) THEN ReadPrefs(Visible) ELSE Defaults
       \/ rw' = FALSE /\ prefs' = Defaults
    /\ UNCHANGED <<key, quitting, ddir, log, tmp, nkey, sessions, changes>>

\* After a change of the preferences: profile_save, when it is allowed.
SaveOrNot == pc' = IF rw THEN "seal" ELSE "idle"

\* remember_visit
Visit(u) ==
    /\ pc = "idle" /\ changes < MaxChanges /\ prefs.rem
    /\ prefs' = [prefs EXCEPT !.history = HistoryAdd(@, u), !.visits = <<u>> \o @]
    /\ SaveOrNot /\ changes' = changes + 1
    /\ UNCHANGED <<key, rw, quitting, ddir, log, tmp, nkey, sessions>>

\* bookmark_toggle_current
Bookmark(u) ==
    /\ pc = "idle" /\ changes < MaxChanges
    /\ prefs' = [prefs EXCEPT !.bookmarks = BookmarkToggle(@, u)]
    /\ prefs' # prefs
    /\ SaveOrNot /\ changes' = changes + 1
    /\ UNCHANGED <<key, rw, quitting, ddir, log, tmp, nkey, sessions>>

\* The menu's "Remember history": switching it off forgets what was kept.
RememberHistory ==
    /\ pc = "idle" /\ changes < MaxChanges
    /\ prefs' = IF prefs.rem THEN [prefs EXCEPT !.rem = FALSE, !.history = <<>>, !.visits = <<>>]
                             ELSE [prefs EXCEPT !.rem = TRUE]
    /\ SaveOrNot /\ changes' = changes + 1
    /\ UNCHANGED <<key, rw, quitting, ddir, log, tmp, nkey, sessions>>

\* profile_sync, after a setting changed.
Setting(z) ==
    /\ pc = "idle" /\ changes < MaxChanges /\ z # prefs.zoom
    /\ prefs' = [prefs EXCEPT !.zoom = z]
    /\ SaveOrNot /\ changes' = changes + 1
    /\ UNCHANGED <<key, rw, quitting, ddir, log, tmp, nkey, sessions>>

\* The window closes: a last profile_sync.
Quit ==
    /\ pc = "idle"
    /\ IF rw THEN pc' = "seal" /\ quitting' = TRUE ELSE pc' = "off" /\ UNCHANGED quitting
    /\ IF rw THEN UNCHANGED <<prefs, key, rw>> ELSE prefs' = Defaults /\ key' = 0 /\ rw' = FALSE
    /\ UNCHANGED <<ddir, log, tmp, nkey, sessions, changes>>

(*-------------------------------- saving ---------------------------------*)

\* Where profile_save returns to; nobody looks at its result.
Returned ==
    IF quitting
    THEN pc' = "off" /\ quitting' = FALSE /\ prefs' = Defaults /\ key' = 0 /\ rw' = FALSE
    ELSE pc' = "idle" /\ UNCHANGED <<prefs, key, rw, quitting>>

\* ls_seal and mkstemp
Seal ==
    /\ pc = "seal"
    /\ tmp' = Sealed(key, prefs) /\ pc' = "sync"
    /\ UNCHANGED <<prefs, key, rw, quitting, ddir, log, nkey, sessions, changes>>

\* write_full, fsync and close
SyncFile ==
    /\ pc = "sync"
    /\ pc' = "rename"
    /\ UNCHANGED <<prefs, key, rw, quitting, ddir, log, tmp, nkey, sessions, changes>>

\* Any step up to the rename may fail: the temporary file is removed.
SaveFails ==
    /\ pc \in {"seal", "sync", "rename"}
    /\ tmp' = Absent /\ Returned
    /\ UNCHANGED <<ddir, log, nkey, sessions, changes>>

\* (a rename that does not wait for the bytes)
RenameUnsynced ==
    /\ pc \in {"sync", "rename"}
    /\ log' = Append(log, [file |-> "prefs",
                           content |-> IF pc = "sync" THEN Damaged ELSE tmp])
    /\ tmp' = Absent /\ pc' = "dirsync"
    /\ UNCHANGED <<prefs, key, rw, quitting, ddir, nkey, sessions, changes>>

Rename ==
    /\ pc = "rename"
    /\ log' = Append(log, [file |-> "prefs", content |-> tmp])
    /\ tmp' = Absent /\ pc' = "dirsync"
    /\ UNCHANGED <<prefs, key, rw, quitting, ddir, nkey, sessions, changes>>

\* fsync_dir, best effort.
SyncDirectory ==
    /\ pc = "dirsync"
    /\ \/ ddir' = Visible /\ log' = <<>>
       \/ UNCHANGED <<ddir, log>>
    /\ Returned
    /\ UNCHANGED <<tmp, nkey, sessions, changes>>

(*--------------------------------- faults --------------------------------*)

\* The machine stops; of the renames not yet on the disk a first part survives.
Crash ==
    /\ pc # "off"
    /\ \E n \in 0 .. Len(log) : ddir' = After(ddir, log, n)
    /\ log' = <<>> /\ tmp' = Absent
    /\ pc' = "off" /\ quitting' = FALSE /\ prefs' = Defaults /\ key' = 0 /\ rw' = FALSE
    /\ UNCHANGED <<nkey, sessions, changes>>

\* The system writes the directory in its own time.
WriteBack ==
    /\ log # <<>>
    /\ ddir' = After(ddir, log, 1) /\ log' = Tail(log)
    /\ UNCHANGED <<prefs, key, rw, pc, quitting, tmp, nkey, sessions, changes>>

Next ==
    \/ Launch \/ OpenKey \/ MakeKey \/ MakeKeyFails \/ Load
    \/ \E u \in URLs : Visit(u) \/ Bookmark(u)
    \/ RememberHistory \/ (\E z \in Zooms : Setting(z)) \/ Quit
    \/ Seal \/ SyncFile \/ SaveFails \/ Rename \/ SyncDirectory
    \/ Crash \/ WriteBack

Spec == Init /\ [][Next]_vars

-----------------------------------------------------------------------------
(* Properties.                                                             *)

\* The history kept is the pages visited, each at its last visit, the latest
\* first, and all of them unless MaxHistory later ones are there; through any
\* number of saves, loads and stops.
LastVisit(v, u) == SelectInSeq(v, LAMBDA x : x = u)

Recent(h, v) ==
    LET when(k) == LastVisit(v, h[k])
    IN /\ Len(h) <= MaxHistory
       /\ \A k \in 1 .. Len(h) : when(k) # 0
       /\ \A j, k \in 1 .. Len(h) : j < k => when(j) < when(k)
       /\ \A i \in 1 .. Len(v) :
             \/ \E k \in 1 .. Len(h) : h[k] = v[i]
             \/ Len(h) = MaxHistory /\ when(MaxHistory) < i

HistoryRecent == Recent(prefs.history, prefs.visits)

\* Whenever the machine stops, the profile opens again: the key on the disk is
\* the one the sealed file was written with, so a session is never locked out
\* of what an earlier one saved (the "fail closed, never clobber" of profile.c).
OpensAgain ==
    \A n \in 0 .. Len(log) :
        LET d == After(ddir, log, n)
        IN d.prefs.is # "absent" => d.key.is = "key" /\ Opens(d, d.key.key)

\* The history is the recent pages, once each, and whenever the machine stops
\* the profile that was saved opens again with the key on the disk.
ProfileKept == HistoryRecent /\ OpensAgain

\* What each rename of prefs.bin left to be read, oldest first.  A key file
\* is renamed only before any of them.
PrefsOf(c) ==
    CASE c.is = "absent" -> Defaults
      [] c.is = "damaged" -> [Defaults EXCEPT !.visits = <<"damaged">>]
      [] OTHER -> [Parse(c.text) EXCEPT !.visits = c.visits]

SavedIn(d, l) ==
    LET renames == IF l # <<>> /\ l[1].file = "key" THEN Tail(l) ELSE l
        left == <<d.prefs>> \o [k \in 1 .. Len(renames) |-> renames[k].content]
    IN [k \in 1 .. Len(left) |-> PrefsOf(left[k])]

SavedValues == SavedIn(ddir, log)

\* What the session holds, once it has one.
Held == IF pc \in {"off", "open", "mkkey", "load"} THEN <<>> ELSE <<prefs>>

\* The profile as a register that survives stops.
Register == INSTANCE DurableRegister WITH
    Values <- [zoom : Zooms, rem : BOOLEAN, bookmarks : Seq(URLs), history : Seq(URLs),
               visits : Seq(URLs)],
    Default <- Defaults,
    log <- SavedValues,
    mem <- Held

\* Every save is whole or absent, and a session starts from one that was made:
\* ds_write's temporary file, sync and rename implement the register.
SavesAtomic == Register!Spec
=============================================================================
