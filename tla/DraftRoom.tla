------------------------------- MODULE DraftRoom -------------------------------
(***************************************************************************)
(* A draft room of the Draft Lab: draft_assistant.py (the session and its  *)
(* picks), draft_service.py (record_pick, undo_pick, sync_espn_draft under *)
(* _activity_lock), draft_espn_live.py (what is accepted of the public     *)
(* draft) and the pages of draft_lab.js that work on the room, each with   *)
(* one action and one ESPN sync under way at most.                         *)
(*                                                                         *)
(* A sync reads the public draft before it takes the lock, so that what it *)
(* saw may be older than the room it is reconciled with, and the other way *)
(* round.  Replies arrive in any order, or not at all.                     *)
(***************************************************************************)
EXTENDS Naturals, Sequences

CONSTANTS
    TeamCount, RosterSize, Players,
    User,         \* the drafter the room recommends for
    Leagues,      \* public ESPN drafts (league and season)
    Orders,       \* the team orders an ESPN draft may have
    Tabs,         \* pages that show the room
    Nothing,      \* no binding, nothing under way, picked by hand
    MaxActs,      \* bound: picks, undos and openings sent by the users
    MaxEspn,      \* bound: changes of the public drafts
    MaxLosses     \* bound: failing reads and saves, lost replies

Sources == Leagues \X Orders

ASSUME RoomAssumption ==
    /\ TeamCount \in Nat \ {0, 1}
    /\ RosterSize \in Nat \ {0}
    /\ User \in 1..TeamCount
    /\ Nothing \notin Sources \cup Leagues

VARIABLES
    room,    \* disk: the saved session, its picks and its draft binding
    espn,    \* the public drafts: their team order and their picks
    busy,    \* heavy work or a background job of the Draft Lab runs
    action,  \* [Tabs -> what assistantAction awaits, or Nothing]
    sync,    \* [Tabs -> what syncEspnDraft awaits, or Nothing]
    shown,   \* [Tabs -> the status the page shows]
    auto,    \* [Tabs -> assistantEspnAuto is checked]
    league,  \* [Tabs -> the draft typed into the league field, or Nothing:
             \*          it is empty or not a number]
    away,    \* [Tabs -> the page is hidden, shows another part of the program
             \*          or was told that other heavy work runs: it sends nothing]
    acts, changes, losses

pages == <<action, sync, shown, auto, league, away>>
bounds == <<acts, changes, losses>>
roomVars == <<room, espn, busy, pages, bounds>>

Drafters == 1..TeamCount
Total == TeamCount * RosterSize

(* drafter_for_pick: odd rounds go up, even rounds go down. *)
DrafterForPick(overall) ==
    LET round == (overall - 1) \div TeamCount
        offset == (overall - 1) % TeamCount
    IN  IF round % 2 = 0 THEN offset + 1 ELSE TeamCount - offset

(* A pick; "by" is a history: the source it was taken from, or Nothing. *)
Pick == [drafter : Drafters, player : Players, by : Sources \cup {Nothing}]
Room == [picks : Seq(Pick), binding : Sources \cup {Nothing}]

(* What a page awaits: a request on its way, what ESPN answered to it, or  *)
(* the status that is the reply.                                           *)
PickRequest == [stage : {"sent"}, op : {"pick"}, player : Players, drafter : Drafters]
PlainRequest == [stage : {"sent"}, op : {"undo", "open"}]
SyncRequest == [stage : {"sent"}, league : Leagues]
Observation == [stage : {"observed"}, source : Sources, players : Seq(Players)]
Reply == [stage : {"replied"}, op : {"pick", "undo", "open", "sync"}, status : Room]

Drafted(picks) == {picks[i].player : i \in 1..Len(picks)}
Complete(picks) == Len(picks) >= Total

(* createAssistant has saved an empty room, and every page has opened it. *)
EmptyRoom == [picks |-> <<>>, binding |-> Nothing]

RoomInit ==
    /\ room = EmptyRoom
    /\ espn \in [Leagues -> [order : Orders, players : {<<>>}]]
    /\ busy = FALSE
    /\ action = [t \in Tabs |-> Nothing]
    /\ sync = [t \in Tabs |-> Nothing]
    /\ shown = [t \in Tabs |-> EmptyRoom]
    /\ auto = [t \in Tabs |-> FALSE]
    /\ league = [t \in Tabs |-> Nothing]
    /\ away = [t \in Tabs |-> FALSE]
    /\ acts = 0 /\ changes = 0 /\ losses = 0

Fault == losses < MaxLosses /\ losses' = losses + 1
NoFault == UNCHANGED losses

-----------------------------------------------------------------------------
(* The pages send. *)
CanAct(t) == action[t] = Nothing /\ ~away[t] /\ acts < MaxActs

Send(t, request) ==
    /\ CanAct(t)
    /\ action' = [action EXCEPT ![t] = request]
    /\ acts' = acts + 1
    /\ UNCHANGED <<room, espn, busy, sync, shown, auto, league, away, changes, losses>>

(* openAssistant reads the room, and switches the automatic sync off. *)
SendOpen(t) == Send(t, [stage |-> "sent", op |-> "open"])

(* recordPick sends a player, chosen from a list that may be older than    *)
(* the room, and the drafter on the clock in the status that is shown.     *)
SendPick(t) ==
    /\ ~Complete(shown[t].picks)
    /\ \E p \in Players :
          Send(t, [stage |-> "sent", op |-> "pick", player |-> p,
                   drafter |-> DrafterForPick(Len(shown[t].picks) + 1)])

SendUndo(t) ==
    /\ shown[t].picks # <<>>
    /\ Send(t, [stage |-> "sent", op |-> "undo"])

(* The user checks or unchecks the automatic sync. *)
SwitchAuto(t) ==
    /\ auto' = [auto EXCEPT ![t] = ~@]
    /\ UNCHANGED <<room, espn, busy, action, sync, shown, league, away, bounds>>

(* The league field: a league is typed or cleared, unless the page shows a *)
(* binding, which makes the field read-only.                               *)
TypeLeague(t) ==
    /\ shown[t].binding = Nothing
    /\ \E l \in (Leagues \cup {Nothing}) \ {league[t]} :
          league' = [league EXCEPT ![t] = l]
    /\ UNCHANGED <<room, espn, busy, action, sync, shown, auto, away, bounds>>

(* The page is hidden, left or told of other heavy work, or all that ends. *)
GoAway(t) ==
    /\ away' = [away EXCEPT ![t] = ~@]
    /\ UNCHANGED <<room, espn, busy, action, sync, shown, auto, league, bounds>>

(* syncEspnDraft, of the button or of the timer.  Without a league it does *)
(* nothing, and the automatic sync stays switched on.                      *)
SendSync(t) ==
    /\ sync[t] = Nothing /\ ~away[t]
    /\ ~Complete(shown[t].picks)
    /\ league[t] # Nothing
    /\ sync' = [sync EXCEPT ![t] = [stage |-> "sent", league |-> league[t]]]
    /\ UNCHANGED <<room, espn, busy, action, shown, auto, league, away, bounds>>

-----------------------------------------------------------------------------
(* The service. *)

(* _validated_new_pick *)
ValidNewPick(picks, drafter, player) ==
    /\ ~Complete(picks)
    /\ drafter = DrafterForPick(Len(picks) + 1)
    /\ player \notin Drafted(picks)

(* _ensure_recommendations_available refuses what needs recommendations. *)
Due(picks) ==
    ~Complete(picks) /\ DrafterForPick(Len(picks) + 1) = User

Available(picks) == ~(Due(picks) /\ busy)

(* The reply to the action of a page. *)
Answer(t, status) ==
    action' = [action EXCEPT ![t] =
                  [stage |-> "replied", op |-> action[t].op, status |-> status]]

Refuse(t) == action' = [action EXCEPT ![t] = Nothing]

Requested(t, op) == action[t] # Nothing /\ action[t].stage = "sent" /\ action[t].op = op

(* assistant: the saved room, or a refusal. *)
ServeOpen(t) ==
    /\ Requested(t, "open")
    /\ IF Available(room.picks) THEN Answer(t, room) ELSE Refuse(t)
    /\ UNCHANGED <<room, espn, busy, sync, shown, auto, league, away, bounds>>

(* The changed room is saved and answered, unless the save fails. *)
SaveAndAnswer(t, changed) ==
    \/ NoFault /\ room' = changed /\ Answer(t, changed)
    \/ Fault /\ UNCHANGED room /\ Refuse(t)

Recorded(t) ==
    [room EXCEPT !.picks =
        Append(@, [drafter |-> action[t].drafter, player |-> action[t].player,
                   by |-> Nothing])]

(* record_pick *)
ServePick(t) ==
    /\ Requested(t, "pick")
    /\ IF /\ ValidNewPick(room.picks, action[t].drafter, action[t].player)
          /\ Available(Recorded(t).picks)
       THEN SaveAndAnswer(t, Recorded(t))
       ELSE NoFault /\ UNCHANGED room /\ Refuse(t)
    /\ UNCHANGED <<espn, busy, sync, shown, auto, league, away, acts, changes>>

Undone == [room EXCEPT !.picks = SubSeq(@, 1, Len(@) - 1)]

(* undo_pick *)
ServeUndo(t) ==
    /\ Requested(t, "undo")
    /\ IF room.picks # <<>> /\ Available(Undone.picks)
       THEN SaveAndAnswer(t, Undone)
       ELSE NoFault /\ UNCHANGED room /\ Refuse(t)
    /\ UNCHANGED <<espn, busy, sync, shown, auto, league, away, acts, changes>>

-----------------------------------------------------------------------------
\* Mutant of StopSync: the page reports the error and lets its timer run on.
StopQuietly(t) == sync' = [sync EXCEPT ![t] = Nothing] /\ UNCHANGED auto

(* sync_espn_draft.  An error ends the automatic sync of the page. *)
StopSync(t) ==
    /\ sync' = [sync EXCEPT ![t] = Nothing]
    /\ auto' = [auto EXCEPT ![t] = FALSE]

Synced(t, stage) == sync[t] # Nothing /\ sync[t].stage = stage

(* The public draft is read, with no lock held, or cannot be read or is    *)
(* not an ordinary snake draft of this board's players.                    *)
PollEspn(t) ==
    /\ Synced(t, "sent")
    /\ LET l == sync[t].league
       IN  \/ /\ NoFault
              /\ sync' = [sync EXCEPT ![t] =
                            [stage |-> "observed",
                             source |-> <<l, espn[l].order>>,
                             players |-> espn[l].players]]
              /\ UNCHANGED auto
           \/ Fault /\ StopSync(t)
    /\ UNCHANGED <<room, espn, busy, action, shown, league, away, acts, changes>>

(* bind_assistant_draft: once, then only the same draft again. *)
MayBind(source) == room.binding \in {Nothing, source}

\* Mutant of Continues: the observed picks take the place of the saved ones.
ContinuesAnything(players) == TRUE

(* reconcile_assistant_picks: the observed picks continue the saved ones.  *)
(* Fewer picks than the room has are refused: no automatic rollback.       *)
Continues(players) ==
    /\ Len(players) >= Len(room.picks)
    /\ \A i \in 1..Len(room.picks) : room.picks[i].player = players[i]

Reconciled(source, players) ==
    [binding |-> source,
     picks |-> [i \in 1..Len(players) |->
                  IF i <= Len(room.picks) /\ room.picks[i].player = players[i]
                  THEN room.picks[i]
                  ELSE [drafter |-> DrafterForPick(i), player |-> players[i],
                        by |-> source]]]

Commit(t) ==
    /\ Synced(t, "observed")
    /\ LET source == sync[t].source
           players == sync[t].players
           changed == Reconciled(source, players)
           reply == [stage |-> "replied", op |-> "sync", status |-> changed]
       IN  \/ /\ MayBind(source) /\ Continues(players) /\ Available(changed.picks)
              /\ NoFault
              /\ room' = changed
              /\ sync' = [sync EXCEPT ![t] = reply]
              /\ UNCHANGED auto
           \/ /\ MayBind(source) /\ Continues(players) /\ Available(changed.picks)
              /\ changed # room
              /\ Fault /\ StopSync(t) /\ UNCHANGED room
           \/ /\ ~(MayBind(source) /\ Continues(players) /\ Available(changed.picks))
              /\ NoFault
              /\ StopSync(t) /\ UNCHANGED room
    /\ UNCHANGED <<espn, busy, action, shown, league, away, acts, changes>>

-----------------------------------------------------------------------------
(* applyAssistantDraftBinding: a binding fills the league field, an unbound *)
(* room that is opened empties it.                                         *)
LeagueShown(t, reply) ==
    IF reply.status.binding # Nothing THEN reply.status.binding[1]
    ELSE IF reply.op = "open" THEN Nothing ELSE league[t]

(* A reply arrives: the page reloads the players and shows the status.     *)
(* Opening a room and a complete draft switch the automatic sync off.      *)
Render(t, reply) ==
    /\ shown' = [shown EXCEPT ![t] = reply.status]
    /\ league' = [league EXCEPT ![t] = LeagueShown(t, reply)]
    /\ auto' = [auto EXCEPT ![t] =
                    @ /\ reply.op # "open" /\ ~Complete(reply.status.picks)]

RenderAction(t) ==
    /\ action[t] # Nothing /\ action[t].stage = "replied"
    /\ Render(t, action[t])
    /\ action' = [action EXCEPT ![t] = Nothing]
    /\ UNCHANGED <<room, espn, busy, sync, away, bounds>>

RenderSync(t) ==
    /\ Synced(t, "replied")
    /\ Render(t, sync[t])
    /\ sync' = [sync EXCEPT ![t] = Nothing]
    /\ UNCHANGED <<room, espn, busy, action, away, bounds>>

(* A reply is lost: the page reports an error and shows what it showed. *)
LoseAction(t) ==
    /\ action[t] # Nothing /\ action[t].stage = "replied"
    /\ Fault
    /\ Refuse(t)
    /\ UNCHANGED <<room, espn, busy, sync, shown, auto, league, away, acts, changes>>

LoseSync(t) ==
    /\ Synced(t, "replied")
    /\ Fault
    /\ StopSync(t)
    /\ UNCHANGED <<room, espn, busy, action, shown, league, away, acts, changes>>

-----------------------------------------------------------------------------
(* The public draft goes on; its commissioner may take the last pick back, *)
(* or begin it again with another order.                                   *)
EspnChanges(l) ==
    /\ changes < MaxEspn /\ changes' = changes + 1
    /\ LET players == espn[l].players
       IN  \/ /\ Len(players) < Total
              /\ \E p \in Players \ {players[i] : i \in 1..Len(players)} :
                    espn' = [espn EXCEPT ![l].players = Append(players, p)]
           \/ /\ players # <<>>
              /\ espn' = [espn EXCEPT ![l].players =
                            SubSeq(players, 1, Len(players) - 1)]
           \/ \E o \in Orders \ {espn[l].order} :
                 espn' = [espn EXCEPT ![l] = [order |-> o, players |-> <<>>]]
    /\ UNCHANGED <<room, busy, pages, acts, losses>>

WorkBegins ==
    /\ ~busy
    /\ busy' = TRUE
    /\ UNCHANGED <<room, espn, pages, bounds>>

WorkEnds ==
    /\ busy
    /\ busy' = FALSE
    /\ UNCHANGED <<room, espn, pages, bounds>>

Serve(t) ==
    \/ ServeOpen(t) \/ ServePick(t) \/ ServeUndo(t)
    \/ RenderAction(t)

ServeSync(t) == PollEspn(t) \/ Commit(t) \/ RenderSync(t)

RoomNext ==
    \/ \E t \in Tabs :
          \/ SendOpen(t) \/ SendPick(t) \/ SendUndo(t)
          \/ SwitchAuto(t) \/ TypeLeague(t) \/ GoAway(t) \/ SendSync(t)
          \/ Serve(t) \/ ServeSync(t)
          \/ LoseAction(t) \/ LoseSync(t)
    \/ \E l \in Leagues : EspnChanges(l)
    \/ WorkBegins \/ WorkEnds

RoomSpec == RoomInit /\ [][RoomNext]_roomVars

(* The service and the network answer.  The timer of a page fires every    *)
(* fifteen seconds while the automatic sync is on (updateAssistantAutoSync *)
(* starts it again when the page returns), and sends a sync if it can.     *)
FairRoomSpec ==
    /\ RoomSpec
    /\ \A t \in Tabs :
          /\ WF_roomVars(Serve(t))
          /\ WF_roomVars(ServeSync(t))
          /\ WF_roomVars(auto[t] /\ SendSync(t))

-----------------------------------------------------------------------------
(* The saved room keeps what a draft ledger promises: legal in snake order *)
(* after every step, bound once for good, and no step but an undo takes a  *)
(* pick away, whatever was picked, undone or synced, by whatever page,     *)
(* while a sync was reading ESPN (draft_service.py:438-480).               *)
Ledger == INSTANCE DraftLedger WITH
    Nobody <- Nothing, picks <- room.picks, binding <- room.binding

ImplementsLedger == Ledger!Spec

(* No room mixes two public drafts: every synced pick was taken from the   *)
(* draft the room is bound to, though pages may sync different ones at the *)
(* same time and ESPN may change the order.                                *)
SyncedFromItsBinding ==
    \A i \in 1..Len(room.picks) : room.picks[i].by \in {Nothing, room.binding}

(* The inductive invariant: the types; the room is legal; so is every      *)
(* status that was answered or is shown, and its binding is the room's,    *)
(* because a room is saved before it is answered.                          *)
RoomTypeOK ==
    /\ room \in Room
    /\ espn \in [Leagues -> [order : Orders, players : Seq(Players)]]
    /\ busy \in BOOLEAN
    /\ action \in [Tabs -> PickRequest \cup PlainRequest \cup Reply \cup {Nothing}]
    /\ sync \in [Tabs -> SyncRequest \cup Observation \cup Reply \cup {Nothing}]
    /\ shown \in [Tabs -> Room]
    /\ auto \in [Tabs -> BOOLEAN]
    /\ league \in [Tabs -> Leagues \cup {Nothing}]
    /\ away \in [Tabs -> BOOLEAN]

Distinct(players) ==
    /\ Len(players) <= Total
    /\ \A i, j \in 1..Len(players) : i # j => players[i] # players[j]

Legal(picks) ==
    /\ Len(picks) <= Total
    /\ \A i \in 1..Len(picks) : picks[i].drafter = DrafterForPick(i)
    /\ \A i, j \in 1..Len(picks) : i # j => picks[i].player # picks[j].player

Honest(status) == Legal(status.picks) /\ status.binding \in {Nothing, room.binding}

StatusesOK ==
    \A t \in Tabs :
        /\ Honest(shown[t])
        /\ action[t] # Nothing => (action[t].stage = "replied" => Honest(action[t].status))
        /\ Synced(t, "replied") => Honest(sync[t].status)

EspnOK ==
    /\ \A l \in Leagues : Distinct(espn[l].players)
    /\ \A t \in Tabs : Synced(t, "observed") => Distinct(sync[t].players)

RoomIInv ==
    /\ RoomTypeOK
    /\ Legal(room.picks)
    /\ StatusesOK
    /\ EspnOK
    /\ SyncedFromItsBinding

(* Automatic sync does its work: while it stays on, the page, the room and *)
(* the public draft come to agree, whatever was in flight when it began;   *)
(* what cannot be reconciled switches it off instead of staying behind.    *)
(* It may wait only where syncEspnDraft returns early: while the page is   *)
(* away, shows a complete draft (even if an undo overtook that reply), or  *)
(* shows an unbound room with no league typed (draft_lab.js:1045-1051).    *)
(* Once a page shows a binding its league field never holds it up again.   *)
InStep(t) ==
    /\ shown[t] = room
    /\ room.binding # Nothing
    /\ Len(room.picks) = Len(espn[room.binding[1]].players)
    /\ \A i \in 1..Len(room.picks) :
          room.picks[i].player = espn[room.binding[1]].players[i]

Waits(t) ==
    \/ away[t]
    \/ Complete(shown[t].picks)
    \/ league[t] = Nothing /\ shown[t].binding = Nothing

AutoCatchesUp ==
    \A t \in Tabs : auto[t] ~> (~auto[t] \/ InStep(t) \/ Waits(t))
=============================================================================
