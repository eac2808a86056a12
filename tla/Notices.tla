------------------------------- MODULE Notices -------------------------------
(***************************************************************************)
(* The notification centre (helpers/notification_manager.py): a bounded    *)
(* list, newest first, in the process of the web server, its routes, and   *)
(* the listener with which the desktop program shows a new notice as a     *)
(* native toast while its window is hidden.  Notices are created on the    *)
(* event loop of the server; the window's events and the tray run in       *)
(* threads of their own.                                                   *)
(***************************************************************************)
EXTENDS Integers, Sequences, FiniteSets

CONSTANTS
    Keys,       \* deduplication keys
    NoKey,      \* of a notice that is never merged with another
    MaxItems,   \* _max_items
    Cooldown,   \* _NATIVE_NOTIFY_COOLDOWN
    MaxNow, MaxIds  \* bounds of the clock and of the notices created

ASSUME NoticesAssumption ==
    /\ {MaxItems, Cooldown} \subseteq Nat \ {0}
    /\ {MaxNow, MaxIds} \subseteq Nat
    /\ NoKey \notin Keys

VARIABLES
    items,      \* _items: id, dedupe_key, timestamp, read
    lastId, now,
    told,       \* the new notice the listeners are being called with, or 0
    visible,    \* DesktopController._window_visible
    screen,     \* is the window on the screen
    lastToast   \* _last_native_notify

noticeVars == <<items, lastId, now, told, visible, screen, lastToast>>

NoticesInit ==
    /\ items = <<>> /\ lastId = 0 /\ now = Cooldown /\ told = 0
    /\ visible \in BOOLEAN /\ screen = visible
    /\ lastToast = 0

\* The items of s at the places ps, in the order R of places (a set of pairs).
InOrder(s, ps, R) ==
    [k \in 1 .. Cardinality(ps) |-> s[CHOOSE i \in ps : Cardinality({j \in ps : <<j, i>> \in R}) = k]]

\* The newest first, those of one time as they were.
Younger(s) ==
    {p \in (DOMAIN s) \X (DOMAIN s) :
        s[p[1]].time > s[p[2]].time \/ (s[p[1]].time = s[p[2]].time /\ p[1] <= p[2])}

NewestFirst(s) == InOrder(s, DOMAIN s, Younger(s))

Without(s, ids) ==
    InOrder(s, {i \in DOMAIN s : s[i].id \notin ids}, {p \in (DOMAIN s) \X (DOMAIN s) : p[1] <= p[2]})

\* Mutant of Refreshed: the notice is changed where it is.
RefreshedInPlace(s, key) ==
    [i \in DOMAIN s |-> IF s[i].key = key THEN [s[i] EXCEPT !.time = now, !.read = FALSE] ELSE s[i]]

(* Under the lock: a notice with the key of an older one takes its place,  *)
(* unread, and no listener is called; else it is new, and the oldest ones  *)
(* beyond the limit are dropped.                                           *)
Refreshed(s, key) ==
    NewestFirst([i \in DOMAIN s |-> IF s[i].key = key THEN [s[i] EXCEPT !.time = now, !.read = FALSE] ELSE s[i]])

Inserted(s, key) ==
    LET all == <<[id |-> lastId + 1, key |-> key, time |-> now, read |-> FALSE]>> \o s
    IN  SubSeq(all, 1, IF Len(all) > MaxItems THEN MaxItems ELSE Len(all))

Merges(key) == key # NoKey /\ \E i \in DOMAIN items : items[i].key = key

Notify(key) ==
    /\ told = 0 /\ lastId < MaxIds
    /\ IF Merges(key) THEN /\ items' = Refreshed(items, key)
                           /\ UNCHANGED <<lastId, told>>
                      ELSE /\ items' = Inserted(items, key)
                           /\ lastId' = lastId + 1 /\ told' = lastId + 1
    /\ UNCHANGED <<now, visible, screen, lastToast>>

(* The listener of the desktop program, on the thread that created the     *)
(* notice and after the lock was released (send_native_notification).      *)
Tell ==
    /\ told # 0 /\ told' = 0
    /\ lastToast' = IF visible \/ now - lastToast < Cooldown THEN lastToast ELSE now
    /\ UNCHANGED <<items, lastId, now, visible, screen>>

MarkRead ==
    /\ told = 0
    /\ \E ids \in {{items[i].id} : i \in DOMAIN items} \cup {{items[i].id : i \in DOMAIN items}} :
        items' = [i \in DOMAIN items |-> IF items[i].id \in ids THEN [items[i] EXCEPT !.read = TRUE] ELSE items[i]]
    /\ UNCHANGED <<lastId, now, told, visible, screen, lastToast>>

Delete ==
    /\ told = 0
    /\ \E ids \in {{items[i].id} : i \in DOMAIN items} \cup {{items[i].id : i \in DOMAIN items}} :
        items' = Without(items, ids)
    /\ UNCHANGED <<lastId, now, told, visible, screen, lastToast>>

(* The tray's Open: the flag first, then the window.  The close button     *)
(* hides the window and does not tell the controller.                      *)
ShowFlag ==
    /\ ~screen /\ ~visible /\ visible' = TRUE
    /\ UNCHANGED <<items, lastId, now, told, screen, lastToast>>

ShowWindow ==
    /\ ~screen /\ visible /\ screen' = TRUE
    /\ UNCHANGED <<items, lastId, now, told, visible, lastToast>>

HideWindow ==
    /\ screen /\ screen' = FALSE
    /\ UNCHANGED <<items, lastId, now, told, visible, lastToast>>

Tick ==
    /\ now < MaxNow /\ now' = now + 1
    /\ UNCHANGED <<items, lastId, told, visible, screen, lastToast>>

NoticesNext ==
    \/ \E key \in Keys \cup {NoKey} : Notify(key)
    \/ Tell \/ MarkRead \/ Delete \/ ShowFlag \/ ShowWindow \/ HideWindow \/ Tick

-----------------------------------------------------------------------------
(* A full list loses the notice that has not been written to for longest:  *)
(* one that was refreshed counts as young, however long ago it was created *)
(* (notification_manager.py:190-224).                                      *)
DropsTheOldest ==
    [][ \A i \in DOMAIN items :
          (lastId' > lastId /\ \A j \in DOMAIN items' : items'[j].id # items[i].id)
             => \A j \in DOMAIN items' : items'[j].time >= items[i].time ]_items

=============================================================================
