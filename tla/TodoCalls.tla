------------------------------ MODULE TodoCalls ------------------------------
(***************************************************************************)
(* The calls of the todo tool on the files of a session: extensions/todo.ts. *)
(* A call waits its turn on its session's list, reads it, and replaces     *)
(* TODO.md and then todo.json by a rename, asking again after every wait   *)
(* whether its session is still the active one.  What an operation does to *)
(* a list is TodoPlan; here a list is the sequence of operations it holds. *)
(***************************************************************************)
EXTENDS Naturals, Sequences, SequencesExt, FiniteSets

CONSTANTS
  Call,      \* the calls of the tool, each of one operation
  Owner,     \* the sessions that own a list
  MaxMoves   \* bound: switches, navigations and crashes of one behaviour

VARIABLES
  session,  \* the session the host is on
  epoch, active, closed,  \* of the extension: its generation, the session
                          \* whose list it keeps, whether it was shut down
  json,     \* todo.json of each session
  md,       \* TODO.md of each session
  queue,    \* the calls inside or waiting for a session's turn
  call,     \* each call: [at, owner, epoch, list]
  loads,    \* reads of a list for the panel: [owner, epoch]
  panel,    \* the pinned panel: none, or [owner, list]
  moves     \* switches, navigations and crashes so far

vars == << session, epoch, active, closed, json, md, queue, call, loads,
           panel, moves >>

None == "none"
Lists == Seq(Call)
Places == {"new", "queued", "loaded", "staged", "rendered", "saved",
           "leaving", "ok", "failed"}
Hidden == [owner |-> None, list |-> <<>>]

TypeOK ==
  /\ session \in Owner /\ active \in Owner \cup {None}
  /\ epoch \in Nat /\ closed \in BOOLEAN /\ moves \in 0..MaxMoves
  /\ json \in [Owner -> Lists] /\ md \in [Owner -> Lists]
  /\ queue \in [Owner -> Seq(Call)]
  /\ call \in [Call -> [at : Places, owner : Owner \cup {None},
                        epoch : Nat, list : Lists]]
  /\ loads \subseteq [owner : Owner, epoch : Nat]
  /\ panel.owner \in Owner \cup {None} /\ panel.list \in Lists

Init ==
  /\ session \in Owner /\ active = None /\ epoch = 0 /\ closed = FALSE
  /\ json = [o \in Owner |-> <<>>] /\ md = [o \in Owner |-> <<>>]
  /\ queue = [o \in Owner |-> <<>>]
  /\ call = [c \in Call |-> [at |-> "new", owner |-> None, epoch |-> 0,
                             list |-> <<>>]]
  /\ loads = {} /\ panel = Hidden /\ moves = 0

-----------------------------------------------------------------------------
BugOwns(o, e) == ~closed

\* Whether what began for an owner in an epoch may still go on.
Owns(o, e) == ~closed /\ epoch = e /\ active = o /\ session = o

Mine(c) == Owns(call[c].owner, call[c].epoch)
Moved(c, to) == call' = [call EXCEPT ![c].at = to]
Out(c) == queue' = [queue EXCEPT ![call[c].owner] =
                      SelectSeq(@, LAMBDA d : d # c)]
Extension == << session, epoch, active, closed, moves >>

Ask(c) ==
  /\ call[c].at = "new"
  /\ active' = IF active = None THEN session ELSE active
  /\ IF ~closed /\ active' = session
     THEN /\ call' = [call EXCEPT ![c] = [at |-> "queued", owner |-> session,
                                          epoch |-> epoch, list |-> <<>>]]
          /\ queue' = [queue EXCEPT ![session] = Append(@, c)]
     ELSE Moved(c, "failed") /\ UNCHANGED queue
  /\ UNCHANGED << session, epoch, closed, json, md, loads, panel, moves >>

BugTurn(c) == TRUE

\* Whether the turn on its session's list has come.
Turn(c) == Head(queue[call[c].owner]) = c

Load(c) ==
  /\ call[c].at = "queued" /\ Turn(c) /\ Mine(c)
  /\ call' = [call EXCEPT ![c].at = "loaded", ![c].list = json[call[c].owner]]
  /\ UNCHANGED << Extension, json, md, queue, loads, panel >>

(* The operation may be rejected, and then nothing was written. *)
Apply(c) ==
  /\ call[c].at = "loaded" /\ Mine(c)
  /\ \/ /\ call' = [call EXCEPT ![c].at = "staged", ![c].list = Append(@, c)]
        /\ UNCHANGED queue
     \/ Moved(c, "failed") /\ Out(c)
  /\ UNCHANGED << Extension, json, md, loads, panel >>

RenameMarkdown(c) ==
  /\ call[c].at = "staged" /\ Mine(c)
  /\ md' = [md EXCEPT ![call[c].owner] = call[c].list]
  /\ Moved(c, "rendered")
  /\ UNCHANGED << Extension, json, queue, loads, panel >>

RenameState(c) ==
  /\ call[c].at = "rendered" /\ Mine(c)
  /\ json' = [json EXCEPT ![call[c].owner] = call[c].list]
  /\ Moved(c, "saved")
  /\ UNCHANGED << Extension, md, queue, loads, panel >>

Publish(c) ==
  /\ call[c].at = "saved" /\ Mine(c)
  /\ panel' = [owner |-> call[c].owner, list |-> call[c].list]
  /\ Moved(c, "leaving") /\ Out(c)
  /\ UNCHANGED << Extension, json, md, loads >>

Return(c) ==
  /\ call[c].at = "leaving" /\ Mine(c)
  /\ Moved(c, "ok")
  /\ UNCHANGED << Extension, json, md, queue, loads, panel >>

(* A rename, or the staging, fails; or the session is no longer the active *)
(* one.  What was staged is removed, what was renamed stays.               *)
Fail(c) ==
  /\ \/ call[c].at \in {"loaded", "staged", "rendered", "saved", "leaving"}
     \/ call[c].at = "queued" /\ Turn(c)
  /\ Mine(c) => call[c].at \in {"loaded", "staged", "rendered"}
  /\ Moved(c, "failed") /\ Out(c)
  /\ UNCHANGED << Extension, json, md, loads, panel >>

-----------------------------------------------------------------------------
Event == moves < MaxMoves /\ moves' = moves + 1

(* The host shuts the session down: all that began in it is void. *)
Shutdown ==
  /\ Event /\ ~closed
  /\ active \in {None, session}
  /\ epoch' = epoch + 1 /\ closed' = TRUE /\ panel' = Hidden
  /\ UNCHANGED << session, active, json, md, queue, call, loads >>

(* A session becomes the active one; its list is read for the panel. *)
SessionStarts(o) ==
  /\ closed \/ (epoch = 0 /\ o = session)
  /\ session' = o /\ active' = o /\ closed' = FALSE
  /\ epoch' = epoch + 1
  /\ loads' = loads \cup {[owner |-> o, epoch |-> epoch + 1]}
  /\ UNCHANGED << json, md, queue, call, panel, moves >>

(* Navigation inside the session reads its list again. *)
Navigate ==
  /\ Event /\ ~closed /\ active = session
  /\ loads' = loads \cup {[owner |-> session, epoch |-> epoch]}
  /\ UNCHANGED << session, epoch, active, closed, json, md, queue, call, panel >>

(* A read that comes back to another session leaves its panel alone. *)
Loaded(r) ==
  /\ r \in loads
  /\ loads' = loads \ {r}
  /\ panel' = IF Owns(r.owner, r.epoch)
              THEN [owner |-> r.owner, list |-> json[r.owner]] ELSE panel
  /\ UNCHANGED << Extension, json, md, queue, call >>

(* The process dies, and another starts on the same session. *)
Crash ==
  /\ Event
  /\ call' = [c \in Call |-> IF call[c].at \in {"new", "ok", "failed"}
                             THEN call[c] ELSE [call[c] EXCEPT !.at = "failed"]]
  /\ queue' = [o \in Owner |-> <<>>]
  /\ loads' = {} /\ panel' = Hidden
  /\ epoch' = 0 /\ active' = None /\ closed' = FALSE
  /\ UNCHANGED << session, json, md >>

Next ==
  \/ \E c \in Call : \/ Ask(c) \/ Load(c) \/ Apply(c) \/ RenameMarkdown(c)
                     \/ RenameState(c) \/ Publish(c) \/ Return(c) \/ Fail(c)
  \/ \E o \in Owner : SessionStarts(o)
  \/ \E r \in loads : Loaded(r)
  \/ Shutdown \/ Navigate \/ Crash

\* Calls and reads go on by themselves.
Own == \/ \E c \in Call : \/ Load(c) \/ Apply(c) \/ RenameMarkdown(c)
                          \/ RenameState(c) \/ Publish(c) \/ Return(c) \/ Fail(c)
       \/ \E r \in loads : Loaded(r)
Fairness == WF_vars(Own)
Spec == Init /\ [][Next]_vars /\ Fairness

-----------------------------------------------------------------------------
(* No update is lost: an operation that was reported done, to whichever    *)
(* session, stays in that session's list whatever ran beside it or after.  *)
NoLostUpdate ==
  \A c \in Call : call[c].at \in {"saved", "leaving", "ok"}
    => c \in ToSet(json[call[c].owner])

(* TODO.md is never behind the list the tool reads, and at most the one    *)
(* operation ahead whose save was cut off between the two renames.         *)
MarkdownFollows ==
  \A o \in Owner : md[o] = json[o] \/ (md[o] # <<>> /\ Front(md[o]) = json[o])

(* The panel never shows a list of a session that is not the active one.   *)
PanelIsOwn == panel # Hidden => panel.owner = session /\ ~closed

CallsSound == TypeOK /\ NoLostUpdate /\ MarkdownFollows /\ PanelIsOwn

Ended == /\ \A c \in Call : call[c].at \in {"new", "ok", "failed"}
         /\ loads = {}
CallsEnd == []<>Ended
=============================================================================
