------------------------------- MODULE JSBridge -------------------------------
(***************************************************************************)
(* TGJSBridge.js: messages between a page and the native program that      *)
(* hosts it.  The page leaves a notification in a table and points the     *)
(* location at a jsbridge:// address; the host sees the address and        *)
(* fetches the notification.  The host calls trigger, which calls the      *)
(* callbacks the page has bound to a name.                                 *)
(*                                                                         *)
(* External: an assignment to location.href starts a navigation, and one   *)
(* that comes before the host has seen it takes its place.  The host is    *)
(* not in the repository; it fetches one notification or all of them.      *)
(***************************************************************************)
EXTENDS Naturals, Sequences, SequencesExt

CONSTANTS Names, Callbacks,
          Fetches,      \* "one" (popNotificationObject) or "all" (popAllNotificationObject)
          MaxNotes,     \* bound: notifications the page posts
          MaxArrays,    \* bound: arrays that bind creates
          MaxBound      \* bound: callbacks in one array

ASSUME BridgeAssumption ==
    /\ Fetches \in {"one", "all"}
    /\ MaxNotes \in Nat /\ MaxArrays \in Nat /\ MaxBound \in Nat

VARIABLES
    callbackDict,          \* name -> the array bound to it, 0 if none
    arrays,                \* the contents of the arrays ever made: trigger holds on to one
    notificationIdCount,
    notificationDict,      \* the notifications not fetched
    location,              \* 0: none; n > 0: PostNotificationWithId-n; "ready"
    ready,                 \* DOMContentLoaded has happened
    fetched,               \* what the host has got, in order
    frame                  \* the running trigger: its array, i, len, what was bound when it
                           \* began, what it has called, whether unbind cut the array, and
                           \* whether a callback threw

callVars == <<callbackDict, arrays, frame>>
noteVars == <<notificationIdCount, notificationDict, location, ready, fetched>>
bridgeVars == <<callVars, noteVars>>

Idle == [arr |-> 0, i |-> 0, len |-> 0, bound |-> {}, called |-> {}, cut |-> FALSE,
         threw |-> FALSE]
Ids == 1..MaxNotes
NotificationReady == MaxNotes + 1

BridgeTypeOK ==
    /\ callbackDict \in [Names -> 0..MaxArrays]
    /\ arrays \in Seq(Seq(Callbacks)) /\ Len(arrays) <= MaxArrays
    /\ notificationIdCount \in 0..MaxNotes
    /\ notificationDict \subseteq Ids
    /\ location \in 0..NotificationReady
    /\ ready \in BOOLEAN
    /\ fetched \in Seq(Ids)
    /\ frame \in [arr : 0..MaxArrays, i : Nat, len : Nat,
                  bound : SUBSET Callbacks, called : SUBSET Callbacks, cut : BOOLEAN,
                  threw : BOOLEAN]
    /\ frame.i <= frame.len

BridgeInit ==
    /\ callbackDict = [n \in Names |-> 0]
    /\ arrays = <<>>
    /\ notificationIdCount = 0 /\ notificationDict = {}
    /\ location = 0 /\ ready = FALSE /\ fetched = <<>>
    /\ frame = Idle

-----------------------------------------------------------------------------
(* Page to host. *)

\* The listener of DOMContentLoaded that the constructor installs.
ContentLoaded ==
    /\ ~ready
    /\ ready' = TRUE
    /\ location' = NotificationReady
    /\ UNCHANGED <<callVars, notificationIdCount, notificationDict, fetched>>

\* Fault: the id is counted after it was used.
PostUnderOldId ==
    /\ notificationIdCount < MaxNotes
    /\ notificationIdCount' = notificationIdCount + 1
    /\ notificationDict' = notificationDict \cup ({notificationIdCount} \ {0})
    /\ location' = notificationIdCount + 1
    /\ UNCHANGED <<callVars, ready, fetched>>

postNotification ==
    /\ notificationIdCount < MaxNotes
    /\ notificationIdCount' = notificationIdCount + 1
    /\ notificationDict' = notificationDict \cup {notificationIdCount + 1}
    /\ location' = notificationIdCount + 1
    /\ UNCHANGED <<callVars, ready, fetched>>

\* What was deleted already is undefined, and the host gets nothing.
popNotificationObject(id) ==
    /\ fetched' = IF id \in notificationDict THEN Append(fetched, id) ELSE fetched
    /\ notificationDict' = notificationDict \ {id}

\* The keys of an object that are numbers, as JSON.stringify writes them: ascending.
Ascending(S) ==
    CHOOSE s \in [1..Cardinality(S) -> S] :
        \A i, j \in 1..Cardinality(S) : i < j => s[i] < s[j]

\* Fault: the table is not emptied.
PopAllKept ==
    /\ fetched' = fetched \o Ascending(notificationDict)
    /\ UNCHANGED notificationDict

popAllNotificationObject ==
    /\ fetched' = fetched \o Ascending(notificationDict)
    /\ notificationDict' = {}

\* The host sees the address; one that fetches everything does so at every address.
HostFetches ==
    /\ location # 0
    /\ location' = 0
    /\ \/ Fetches = "all" /\ popAllNotificationObject
       \/ Fetches = "one" /\ location # NotificationReady /\ popNotificationObject(location)
       \/ Fetches = "one" /\ location = NotificationReady /\ UNCHANGED <<fetched, notificationDict>>
    /\ UNCHANGED <<callVars, notificationIdCount, ready>>

-----------------------------------------------------------------------------
(* Host to page.  A callback may bind and unbind: these are then steps      *)
(* between two calls of the running trigger.                                *)

bind(n, cb) ==
    /\ IF callbackDict[n] = 0
       THEN /\ Len(arrays) < MaxArrays
            /\ arrays' = Append(arrays, <<cb>>)
            /\ callbackDict' = [callbackDict EXCEPT ![n] = Len(arrays) + 1]
       ELSE /\ Len(arrays[callbackDict[n]]) < MaxBound
            /\ arrays' = [arrays EXCEPT ![callbackDict[n]] = Append(@, cb)]
            /\ UNCHANGED callbackDict
    /\ UNCHANGED <<noteVars, frame>>

\* unbind(name): the array leaves the table as it is.
unbindAll(n) ==
    /\ callbackDict' = [callbackDict EXCEPT ![n] = 0]
    /\ UNCHANGED <<noteVars, arrays, frame>>

\* unbind(name, callback): splice(i, 1) at the first i that holds it; an array that is
\* empty then leaves the table.  For a name that is not in the table the test of the
\* length throws, and nothing has changed.
unbind(n, cb) ==
    /\ callbackDict[n] # 0
    /\ LET a == callbackDict[n] IN
       /\ arrays' = [arrays EXCEPT ![a] = RemoveFirst(@, cb)]
       /\ callbackDict' = IF arrays'[a] = <<>> THEN [callbackDict EXCEPT ![n] = 0]
                          ELSE callbackDict
       /\ frame' = IF a = frame.arr /\ arrays' # arrays THEN [frame EXCEPT !.cut = TRUE]
                   ELSE frame
    /\ UNCHANGED noteVars

\* Fault: the loop begins behind the first callback.
TriggerFromOne(n) ==
    /\ frame = Idle
    /\ callbackDict[n] # 0
    /\ LET a == callbackDict[n] IN
       frame' = [arr |-> a, i |-> 1, len |-> Len(arrays[a]), bound |-> ToSet(arrays[a]),
                 called |-> {}, cut |-> FALSE, threw |-> FALSE]
    /\ UNCHANGED <<noteVars, callbackDict, arrays>>

\* The loop keeps the array and its first length, whatever happens to both.
trigger(n) ==
    /\ frame = Idle
    /\ callbackDict[n] # 0
    /\ LET a == callbackDict[n] IN
       frame' = [arr |-> a, i |-> 0, len |-> Len(arrays[a]), bound |-> ToSet(arrays[a]),
                 called |-> {}, cut |-> FALSE, threw |-> FALSE]
    /\ UNCHANGED <<noteVars, callbackDict, arrays>>

\* callList[i](userInfo), which may throw: the loop has no try.
CallNext ==
    /\ frame.i < frame.len /\ frame.i < Len(arrays[frame.arr]) /\ ~frame.threw
    /\ \E threw \in BOOLEAN :
          frame' = [frame EXCEPT !.i = @ + 1, !.threw = threw,
                                 !.called = @ \cup {arrays[frame.arr][frame.i + 1]}]
    /\ UNCHANGED <<noteVars, callbackDict, arrays>>

\* The loop is over, or an exception ends it: of a callback, or because callList[i] is
\* undefined in an array that has become shorter.
TriggerEnds ==
    /\ frame # Idle
    /\ frame.i = frame.len \/ frame.i >= Len(arrays[frame.arr]) \/ frame.threw
    /\ frame' = Idle
    /\ UNCHANGED <<noteVars, callbackDict, arrays>>

-----------------------------------------------------------------------------
NotesNext == ContentLoaded \/ postNotification \/ HostFetches

CallsNext ==
    \/ \E n \in Names : unbindAll(n) \/ \E cb \in Callbacks : bind(n, cb) \/ unbind(n, cb)
    \/ \E n \in Names : trigger(n)
    \/ CallNext \/ TriggerEnds

\* The two directions share nothing.
BridgeNext == NotesNext \/ CallsNext

BridgeSpec == BridgeInit /\ [][BridgeNext]_bridgeVars

\* The host sees every address that stays.
BridgeFairSpec == BridgeSpec /\ WF_bridgeVars(HostFetches)

-----------------------------------------------------------------------------
(* Properties. *)

\* The host gets a notification at most once, and later ones never before earlier ones.
FetchedInOrder == \A i, j \in DOMAIN fetched : i < j => fetched[i] < fetched[j]

\* "js sends a message to oc" (TGJSBridge.js:24): what the page has posted arrives, if
\* the host fetches everything at every address, though addresses are lost.
NoteArrives == \A id \in Ids : notificationIdCount = id ~> id \in ToSet(fetched)

\* trigger calls everything that was bound when it began, whatever is bound, and whatever
\* name is dropped, while it runs, unless unbind(name, callback) cuts the array it walks or
\* a callback throws: nothing catches the exception, and those behind it are not called.
CallsAll ==
    frame # Idle /\ frame' = Idle /\ ~frame.cut /\ ~frame.threw
        => frame.bound \subseteq frame.called
TriggerCallsAll == [][CallsAll]_bridgeVars
=============================================================================
