------------------------------ MODULE TrayItem ------------------------------
(***************************************************************************)
(* A button in Plasma's tray: the registration that the screenshot button  *)
(* (tools/tabs6-screenshot-tray.py) and the rotation toggle share word for *)
(* word.  The program owns a name on the session bus, watches the tray's   *)
(* watcher come and go, and registers with it by a call that blocks its    *)
(* main loop, so what the bus says meanwhile waits in its inbox.           *)
(***************************************************************************)
EXTENDS Naturals, Sequences

CONSTANTS
    Tapped,         \* the message of a tap on the icon
    MaxRestarts,    \* bound: how often the watcher appears
    MaxInbox,       \* bound: messages that wait for the main loop
    TrayHazards     \* "busy": the watcher may fail to answer in time

ASSUME TrayAssumption ==
    /\ MaxRestarts \in Nat /\ MaxInbox \in Nat \ {0} /\ TrayHazards \subseteq {"busy"}
    /\ Tapped \notin {"acquired", "appeared", "vanished"}

VARIABLES
    watcher,        \* the watcher's name has an owner
    known,          \* that owner shows our icon
    inbox,          \* what the main loop has not handled yet
    registered,     \* registered_with_watcher
    call,           \* the blocking call, if one is made
    refused,        \* the last call failed though its watcher stayed
    restarts

tray == <<watcher, known, inbox, registered, call, refused, restarts>>
-----------------------------------------------------------------------------
(* plasmashell. *)
WatcherGoes ==
    /\ watcher /\ Len(inbox) < MaxInbox
    /\ watcher' = FALSE /\ known' = FALSE /\ refused' = FALSE
    /\ inbox' = Append(inbox, "vanished")
    /\ call' = (IF call = "sent" THEN "failed" ELSE call)
    /\ UNCHANGED <<registered, restarts>>

WatcherComes ==
    /\ ~watcher /\ restarts < MaxRestarts /\ Len(inbox) < MaxInbox
    /\ watcher' = TRUE /\ restarts' = restarts + 1
    /\ inbox' = Append(inbox, "appeared")
    /\ UNCHANGED <<known, registered, call, refused>>

Tap ==
    /\ known /\ Len(inbox) < MaxInbox
    /\ inbox' = Append(inbox, Tapped)
    /\ UNCHANGED <<watcher, known, registered, call, refused, restarts>>

(* The call: answered, or out of time though it may still be served.       *)
Answer ==
    /\ call = "sent"
    /\ \/ /\ known' = TRUE /\ call' = "answered" /\ UNCHANGED refused
       \/ /\ "busy" \in TrayHazards
          /\ known' \in {known, TRUE} /\ call' = "failed" /\ refused' = TRUE
    /\ UNCHANGED <<watcher, inbox, registered, restarts>>
-----------------------------------------------------------------------------
(* The program. *)
Take(message) == call = "none" /\ inbox # <<>> /\ Head(inbox) = message /\ inbox' = Tail(inbox)

(* Mutant of on_watcher_vanished: it only logs.                            *)
on_watcher_vanished_LogsOnly ==
    /\ Take("vanished")
    /\ UNCHANGED <<watcher, known, registered, call, refused, restarts>>

on_watcher_vanished ==
    /\ Take("vanished")
    /\ registered' = FALSE
    /\ UNCHANGED <<watcher, known, call, refused, restarts>>

register_with_watcher ==
    /\ Take("acquired") \/ Take("appeared")
    /\ call' = (CASE registered -> "none" [] ~registered /\ watcher -> "sent"
                  [] OTHER -> "failed")
    /\ refused' = (refused /\ registered)
    /\ UNCHANGED <<watcher, known, registered, restarts>>

Return ==
    /\ call \in {"answered", "failed"}
    /\ registered' = (call = "answered") /\ call' = "none"
    /\ UNCHANGED <<watcher, known, inbox, refused, restarts>>

(* Its own name and the first look at the watcher's come in either order.  *)
TrayInit ==
    /\ watcher \in BOOLEAN /\ restarts = 0
    /\ \E first \in {IF watcher THEN "appeared" ELSE "vanished"} :
           inbox \in {<<"acquired", first>>, <<first, "acquired">>}
    /\ known = FALSE /\ registered = FALSE /\ call = "none" /\ refused = FALSE
=============================================================================
