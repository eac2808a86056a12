------------------------------- MODULE Updates -------------------------------
(***************************************************************************)
(* The updater (kageclaw/updater): the check for a newer version, which    *)
(* the web server makes at its start and when a browser asks, and the      *)
(* gateway every few hours; and the update that a browser asks for.  The   *)
(* two processes share one cache file, which each reads, changes and       *)
(* writes with no lock.  An update that is found goes to the notification  *)
(* centre.                                                                 *)
(***************************************************************************)
EXTENDS Notices, FiniteSets

CONSTANTS
    Checkers,   \* "web" and "gateway"
    Methods,    \* how the program may have been installed
    Tries,      \* _REQUEST_RETRIES
    MaxChecks   \* bound of the checks made

ASSUME UpdatesAssumption ==
    /\ Checkers \subseteq {"web", "gateway"}
    /\ Methods \subseteq {"pip", "exe", "docker", "source"}
    /\ {Tries, MaxChecks} \subseteq Nat \ {0} /\ "update" \in Keys

VARIABLES
    cache,      \* the file: the newest result and the last one without error, or torn
    newer,      \* is there a newer version
    method,
    work,       \* the local state of every checker's check
    answer,     \* what the last check said
    knew,       \* ghost: had an update been found when the check began
    known,      \* ghost: a check has found an update, and no other check or installer
                \* was at the file in between
    update,     \* the update asked for: where it is
    copied,     \* has the user's own file been copied to _old
    checks

ghosts == <<knew, known>>
install == <<method, update, copied>>
updateVars == <<cache, newer, work, answer, checks, ghosts, install>>
updaterVars == <<noticeVars, updateVars>>

None == "none"
Error == "error"
Found == "found"
Latest == "latest"
Empty == [entry |-> None, fresh |-> FALSE, success |-> None]
Torn == [Empty EXCEPT !.entry = "torn"]
Idle == [step |-> "idle", try |-> 0, stale |-> None, result |-> None, merged |-> Empty]

UpdatesInit ==
    /\ NoticesInit
    /\ cache = Empty /\ newer = FALSE /\ method \in Methods
    /\ work = [c \in Checkers |-> Idle] /\ answer = [c \in Checkers |-> None]
    /\ knew = [c \in Checkers |-> FALSE] /\ known = FALSE
    /\ update = "idle" /\ copied = FALSE /\ checks = 0

Alone(c) == \A o \in Checkers \ {c} : work[o].step = "idle"
File == IF cache = Torn THEN Empty ELSE cache  \* _load_cache_state: what cannot be parsed is empty

At(c, where) == work[c].step = where
Works(c, new) == work' = [work EXCEPT ![c] = new]

(* A result whose update is available becomes a notice under the key of    *)
(* the install method and the version; the gateway's comes over the socket.*)
Says(c, r) ==
    /\ Works(c, IF r = Found THEN [Idle EXCEPT !.step = "tell"] ELSE Idle)
    /\ answer' = [answer EXCEPT ![c] = r]

(* check_for_update: a fresh entry is the answer, be it an error; else the *)
(* last success is kept at hand and the source is asked.                   *)
Check(c, force) ==
    /\ At(c, "idle") /\ checks < MaxChecks /\ checks' = checks + 1
    /\ known' = (known /\ Alone(c)) /\ knew' = [knew EXCEPT ![c] = known']
    /\ IF ~force /\ File.entry # None /\ File.fresh
       THEN Says(c, File.entry)
       ELSE LET old == IF File.success # None THEN File.success ELSE File.entry
            IN  Works(c, [Idle EXCEPT !.step = "ask", !.try = 1, !.stale = old])
                /\ answer' = [answer EXCEPT ![c] = None]
    /\ UNCHANGED <<noticeVars, cache, newer, install>>

(* _request_json *)
AskFails(c) ==
    /\ At(c, "ask") /\ work[c].try < Tries
    /\ Works(c, [work[c] EXCEPT !.try = @ + 1])
    /\ UNCHANGED <<noticeVars, cache, newer, answer, checks, ghosts, install>>

Answered(c) ==
    /\ At(c, "ask")
    /\ Works(c, [work[c] EXCEPT !.step = "load", !.result = IF newer THEN Found ELSE Latest])
    /\ UNCHANGED <<noticeVars, cache, newer, answer, checks, ghosts, install>>

\* Mutant of FallsBack: the failure is saved although an old result is at hand.
FallsBackNever(c) ==
    /\ At(c, "ask") /\ work[c].try = Tries
    /\ Works(c, [work[c] EXCEPT !.step = "load", !.result = Error]) /\ UNCHANGED answer
    /\ UNCHANGED <<noticeVars, cache, newer, checks, ghosts, install>>

(* The last try failed: the old result is shown and not saved again, or    *)
(* the failure itself is.                                                  *)
FallsBack(c) ==
    /\ At(c, "ask") /\ work[c].try = Tries
    /\ IF work[c].stale # None THEN Says(c, work[c].stale)
       ELSE Works(c, [work[c] EXCEPT !.step = "load", !.result = Error]) /\ UNCHANGED answer
    /\ UNCHANGED <<noticeVars, cache, newer, checks, ghosts, install>>

(* _save_cached_result: read, change, truncate, write. *)
Merge(file, r) == [entry |-> r, fresh |-> TRUE, success |-> IF r = Error THEN file.success ELSE r]

Loads(c) ==
    /\ At(c, "load")
    /\ Works(c, [work[c] EXCEPT !.step = "truncate", !.merged = Merge(File, work[c].result)])
    /\ UNCHANGED <<noticeVars, cache, newer, answer, checks, ghosts, install>>

Truncates(c) ==
    /\ At(c, "truncate") /\ cache' = Torn
    /\ Works(c, [work[c] EXCEPT !.step = "write"])
    /\ UNCHANGED <<noticeVars, newer, answer, checks, ghosts, install>>

Writes(c) ==
    /\ At(c, "write") /\ cache' = work[c].merged
    /\ Says(c, work[c].result)
    /\ known' = (Alone(c) /\ update # "installing" /\ (known \/ work[c].result = Found))
    /\ UNCHANGED <<noticeVars, newer, checks, knew, install>>

Announces(c) ==
    /\ At(c, "tell") /\ Notify("update") /\ Works(c, Idle)
    /\ UNCHANGED <<cache, newer, answer, checks, ghosts, install>>

(* Half an hour after it was written an entry is not fresh any more. *)
Expires ==
    /\ cache.fresh /\ cache' = [cache EXCEPT !.fresh = FALSE]
    /\ UNCHANGED <<noticeVars, newer, work, answer, checks, ghosts, install>>

Released ==
    /\ ~newer /\ newer' = TRUE
    /\ UNCHANGED <<noticeVars, cache, work, answer, checks, ghosts, install>>

(***************************************************************************)
(* apply_update and api_update_apply.                                      *)
(***************************************************************************)
(* Only pip and the packaged build are updated by the program; for the     *)
(* other methods the answer is the command to type.                        *)
Apply ==
    /\ update = "idle"
    /\ update' = IF method \in {"pip", "exe"} THEN "backup" ELSE "manual"
    /\ UNCHANGED <<noticeVars, cache, newer, work, answer, checks, ghosts, method, copied>>

(* Files of the user that the manifest would replace are copied first. *)
Backup ==
    /\ update = "backup" /\ update' = "installing" /\ copied' = TRUE
    /\ UNCHANGED <<noticeVars, cache, newer, work, answer, checks, ghosts, method>>

InstallFails ==
    /\ update = "installing" /\ update' = "idle"
    /\ UNCHANGED <<noticeVars, cache, newer, work, answer, checks, ghosts, method, copied>>

(* The cache is dropped, after pip and again before the restart, and the   *)
(* gateway is restarted or the program exits.                              *)
Installed ==
    /\ update = "installing" /\ update' = "restarting"
    /\ cache' = IF method = "pip" THEN Empty ELSE cache
    /\ known' = (known /\ method # "pip")
    /\ UNCHANGED <<noticeVars, newer, work, answer, checks, knew, method, copied>>

Restarts ==
    /\ update = "restarting" /\ update' = "done"
    /\ cache' = Empty /\ known' = FALSE
    /\ UNCHANGED <<noticeVars, newer, work, answer, checks, knew, method, copied>>

UpdatesNext ==
    \/ \E c \in Checkers :
        \/ \E force \in BOOLEAN : (force => c = "web") /\ Check(c, force)
        \/ AskFails(c) \/ Answered(c) \/ FallsBack(c) \/ Loads(c) \/ Truncates(c) \/ Writes(c) \/ Announces(c)
    \/ Expires \/ Released \/ Apply \/ Backup \/ InstallFails \/ Installed \/ Restarts
    \/ (Tell \/ Delete) /\ UNCHANGED updateVars

-----------------------------------------------------------------------------
(* An update that a check has found is not forgotten: a check that begins  *)
(* later and cannot reach the source says what is known, and not that it   *)
(* failed, unless another check or an installer was at the cache file at   *)
(* the same time (checker.py:433-467).                                     *)
KnownUpdateStays == \A c \in Checkers : knew[c] => answer[c] # Error

(* However often and from whichever process an update is reported, the     *)
(* centre lists it once (notification_manager.py:132-149, 188-206).        *)
OneUpdateNotice == Cardinality({i \in DOMAIN items : items[i].key = "update"}) <= 1

=============================================================================
