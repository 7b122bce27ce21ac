------------------------------ MODULE MediaSystem ------------------------------
(***************************************************************************)
(* The OISPMedia server with its D-Bus clients: head units that show the   *)
(* last list, path and title they were told and send calls about the lines *)
(* they show.                                                              *)
(*                                                                         *)
(* Calls and listener calls travel through the bus.  Each is delivered in  *)
(* the order it was sent, but nothing orders the calls of one client with  *)
(* those of another, or a call with the listener calls on their way to the *)
(* client that sends it.  A call to a process that is gone is lost.        *)
(***************************************************************************)
EXTENDS MediaProvider

CONSTANTS
  Clients,
  Patient,   \* clients wait for all answers before they call again
  MaxCalls,  \* bound: calls the clients send together
  MaxStarts, \* bound: how often the server process is started
  MaxWire    \* bound: the engine pauses while this many listener calls are
             \* on their way to a client

ASSUME SystemAssumption ==
  /\ Patient \in BOOLEAN
  /\ MaxCalls \in Nat /\ MaxStarts \in Nat /\ MaxWire \in Nat

VARIABLES
  inbox,   \* per client: its calls that have not reached the server
  wire,    \* per client: the listener calls that have not reached it
  view,    \* per client: what it shows
  calls,   \* number of calls sent
  starts   \* number of starts of the server

bus == <<inbox, wire, view, calls, starts>>
systemVars == <<vars, bus>>

NoLine == [name |-> "Up", type |-> "FolderUp", id |-> InvalidID]

\* What a client shows, by the listener call that tells it.
NewView ==
  [getWindowListResult |-> <<>>, updateSelectedPath |-> <<>>,
   updateSelectedTitle |-> NoLine, updatePlayPosition |-> 0]

SystemInit ==
  /\ Init
  /\ inbox = [c \in Clients |-> <<>>]
  /\ wire = [c \in Clients |-> <<>>]
  /\ view = [c \in Clients |-> NewView]
  /\ calls = 0 /\ starts = 0

\* What a listener call tells, and what a client makes of it.
Told(call) ==
  CASE call.call = "getWindowListResult" -> call.list
    [] call.call = "updateSelectedPath"  -> call.path
    [] call.call = "updateSelectedTitle" -> call.title
    [] call.call = "updatePlayPosition"  -> call.pos

Shown(v, call) == [v EXCEPT ![call.call] = Told(call)]

\* The calls of a kind among some, and the last of them as a set.
OfKind(sent, kind) == {k \in DOMAIN sent : sent[k].call = kind}
LastOf(sent, kind) ==
  {k \in OfKind(sent, kind) : \A j \in OfKind(sent, kind) : j <= k}

\* What is shown of a kind when everything on its way has arrived.
Final(v, sent, kind) ==
  IF OfKind(sent, kind) = {} THEN v[kind]
  ELSE Told(sent[CHOOSE k \in LastOf(sent, kind) : TRUE])

FinalView(c) == [kind \in DOMAIN NewView |-> Final(view[c], wire[c], kind)]

-----------------------------------------------------------------------------
(* The clients.                                                            *)

Request ==
  [method : {"selectTitle"}, title : Line]
    \cup [method : {"selectRoot", "getWindowList", "incrementTitle", "pause"}]

\* The calls a client makes: about a line it shows, back to the root, for a new
\* list, for the next title, or to pause.
Requests(c) ==
  {[method |-> "selectTitle", title |-> view[c].getWindowListResult[k]] :
      k \in DOMAIN view[c].getWindowListResult}
    \cup {[method |-> m] :
            m \in {"selectRoot", "getWindowList", "incrementTitle", "pause"}}

MayCall(c) == Patient => inbox[c] = <<>> /\ wire[c] = <<>>

\* A client calls; without a server the call is answered with an error.
ClientCalls(c) ==
  /\ calls < MaxCalls
  /\ MayCall(c)
  /\ \E request \in Requests(c) :
       inbox' = IF status = "up" THEN [inbox EXCEPT ![c] = Append(@, request)]
                                 ELSE inbox
  /\ calls' = calls + 1
  /\ emitted' = <<>>
  /\ UNCHANGED <<disk, server, wire, view, starts>>

Receives(c) ==
  /\ wire[c] # <<>>
  /\ view' = [view EXCEPT ![c] = Shown(@, Head(wire[c]))]
  /\ wire' = [wire EXCEPT ![c] = Tail(@)]
  /\ emitted' = <<>>
  /\ UNCHANGED <<disk, server, inbox, calls, starts>>

-----------------------------------------------------------------------------
(* The server on the bus.                                                  *)

\* Listener calls go to every client; the calls that wait for a process that is
\* gone are lost.
Send ==
  wire' = [c \in Clients |-> wire[c] \o emitted']

Handler(request) ==
  CASE request.method = "selectTitle"    -> selectTitle(request.title)
    [] request.method = "selectRoot"     -> selectPath(<<>>)
    [] request.method = "getWindowList"  -> getWindowList
    [] request.method = "incrementTitle" -> incrementTitle(1)
    [] request.method = "pause"          -> pauseTitle

ServerHandles(c) ==
  /\ inbox[c] # <<>>
  /\ Handler(Head(inbox[c]))
  /\ Send
  /\ inbox' = IF status' = "up" THEN [inbox EXCEPT ![c] = Tail(@)]
                                ELSE [d \in Clients |-> <<>>]
  /\ UNCHANGED <<view, calls, starts>>

RoomOnTheWire == \A c \in Clients : Len(wire[c]) < MaxWire

EngineCalls ==
  /\ RoomOnTheWire
  /\ Engine
  /\ Send
  /\ inbox' = IF status' = "up" THEN inbox ELSE [c \in Clients |-> <<>>]
  /\ UNCHANGED <<view, calls, starts>>

ServerStarts ==
  /\ starts < MaxStarts
  /\ Start
  /\ Send
  /\ starts' = starts + 1
  /\ UNCHANGED <<inbox, view, calls>>

ServerQuits ==
  /\ starts < MaxStarts
  /\ Quit
  /\ Send
  /\ inbox' = [c \in Clients |-> <<>>]
  /\ UNCHANGED <<view, calls, starts>>

SystemNext ==
  \/ \E c \in Clients : ClientCalls(c) \/ Receives(c) \/ ServerHandles(c)
  \/ EngineCalls
  \/ ServerStarts
  \/ ServerQuits

SystemSpec == SystemInit /\ [][SystemNext]_systemVars

\* The bus delivers and the main loop handles what waits for it.
FairSystemSpec ==
  /\ SystemSpec
  /\ \A c \in Clients : /\ WF_systemVars(Receives(c))
                        /\ WF_systemVars(ServerHandles(c))

-----------------------------------------------------------------------------
(* Properties.                                                             *)

\* Every variable the bus adds has its type.
SystemTypeOK ==
  /\ inbox \in [Clients -> Seq(Request)]
  /\ \A c \in Clients : wire[c] \in Seq(Call)
  /\ calls \in 0 .. MaxCalls /\ starts \in 0 .. MaxStarts

\* Whatever is called in whatever order: when everything on its way has arrived,
\* a client shows the list that ids will be looked up in.
ListsArrive ==
  status = "up" => \A c \in Clients : FinalView(c).getWindowListResult = mFilelist

\* ... and the path that list positions are opened below.  A restarted server is
\* back in the root without saying so.
PathsArrive ==
  status = "up" /\ m_CurrentPathVector # <<>> =>
    \A c \in Clients : FinalView(c).updateSelectedPath = m_CurrentPathVector

\* ... and the second the player is at, past the first one: a restarted server
\* counts from 0 without saying so.
PositionsArrive ==
  status = "up" /\ player.old_position # 0 =>
    \A c \in Clients : FinalView(c).updatePlayPosition = player.old_position

\* ... and the title that is played.  The title a server plays first is never
\* announced, neither at the first start nor at a restart, nor when it is found
\* only in a later folder: the root has a title here.
TitlesArrive ==
  status = "up" /\ starts = 1 =>
    \A c \in Clients :
      FinalView(c).updateSelectedTitle # NoLine =>
        FinalView(c).updateSelectedTitle.name = player.file[Len(player.file)]

\* All of it together: what the clients show when everything has arrived.
ViewsArrive == ListsArrive /\ PathsArrive /\ TitlesArrive

\* The list that ids are looked up in is still a folder's, while titles are opened
\* in the root: selectPath has led there, and no getWindowList has followed.
PathReset ==
  m_CurrentPathVector = <<>> /\ \E k \in DOMAIN mFilelist : mFilelist[k] = UpLine

\* The call of a client that the server handles in this step, and survives.
Handled(c, method) ==
  /\ inbox[c] # <<>> /\ inbox'[c] # inbox[c] /\ status' = "up"
  /\ Head(inbox[c]).method = method

\* A title of the list a client shows is on: the player has its file, of the very
\* folder the list is of, and the clients are told.
IsOn(c, title) ==
  /\ view[c].getWindowListResult = WindowList(m_CurrentPath, m_CurrentPathVector)
  /\ player'.file = Append(m_CurrentPath, title.name)
  /\ player'.loaded /\ player'.mPlayState = "PLAYING"
  /\ emitted' = <<SelectedTitle(title)>>

\* A client that waits for the answers to its last call before it calls again
\* gets the very title it was looking at, although it only sends an id and the
\* list may have been replaced, the server restarted or the next title started
\* in between; unless the path was reset under the list: then the name is opened
\* in the root, whatever it is there.
TappedTitleIsPlayed ==
  [][ \A c \in Clients :
        Handled(c, "selectTitle") /\ ~PathReset =>
          LET title == Head(inbox[c]).title
          IN  title.type = "Title" => IsOn(c, title) ]_systemVars

\* When the clients have stopped calling, every one of them ends up with the
\* list of the server and keeps it.
ListsConverge ==
  <>[](status = "up" => \A c \in Clients : view[c].getWindowListResult = mFilelist)
=============================================================================
