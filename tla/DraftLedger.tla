------------------------------ MODULE DraftLedger ------------------------------
(***************************************************************************)
(* What a draft room of the Draft Lab promises: a list of picks in snake   *)
(* order, no player twice, to which picks are added at the end, by hand or *)
(* from the one public draft the room is bound to, and from which only the *)
(* last pick is ever taken away again, by hand.                            *)
(***************************************************************************)
EXTENDS Naturals, Sequences

CONSTANTS
    TeamCount,   \* teams of the league
    RosterSize,  \* rounds of the draft
    Players,     \* the players of the board
    Sources,     \* the public drafts there are
    Nobody       \* no source: picks made by hand, a room that is not bound

Total == TeamCount * RosterSize

(* drafter_for_pick: odd rounds go up, even rounds go down. *)
DrafterForPick(overall) ==
    LET round == (overall - 1) \div TeamCount
        offset == (overall - 1) % TeamCount
    IN  IF round % 2 = 0 THEN offset + 1 ELSE TeamCount - offset

VARIABLES
    picks,   \* a pick is [drafter, player, by]
    binding  \* the source of the room, or Nobody

vars == <<picks, binding>>

Pick == [drafter : 1..TeamCount, player : Players, by : Sources \cup {Nobody}]

(* The room is legal: nobody skipped, nobody twice. *)
Legal(list) ==
    /\ Len(list) <= Total
    /\ \A i \in 1..Len(list) : list[i].drafter = DrafterForPick(i)
    /\ \A i, j \in 1..Len(list) : i # j => list[i].player # list[j].player

Init == picks = <<>> /\ binding = Nobody

Record ==
    /\ \E pick \in Pick : pick.by = Nobody /\ picks' = Append(picks, pick)
    /\ Legal(picks')
    /\ UNCHANGED binding

Undo ==
    /\ picks # <<>>
    /\ picks' = SubSeq(picks, 1, Len(picks) - 1)
    /\ UNCHANGED binding

(* The room follows a source: it is bound to it, now or before, and takes  *)
(* over some more of its picks.                                            *)
Follow(source) ==
    /\ binding \in {Nobody, source}
    /\ binding' = source
    /\ Len(picks') >= Len(picks)
    /\ SubSeq(picks', 1, Len(picks)) = picks
    /\ \A i \in (Len(picks) + 1)..Len(picks') :
          picks'[i] \in Pick /\ picks'[i].by = source
    /\ Legal(picks')

Next == Record \/ Undo \/ \E source \in Sources : Follow(source)

Spec == Init /\ [][Next]_vars
=============================================================================
