-------------------------- MODULE DialogueContext --------------------------
(* The unspoken scene before a line (dialogue_context.py): up to two turns back *)
(* along the transitions that lead to the line's state, in its own dialogue or  *)
(* from another one.                                                            *)
(*                                                                              *)
(* A node is a state of a dialogue. Its texts are only there or not; cutting    *)
(* the rendered history at 1200 characters, from its far end, is left out.      *)
EXTENDS Naturals, FiniteSets, Sequences, SequencesExt

CONSTANTS
  Scenes,        \* dialogues, in the order of their names: 1, 2, ...
  MaxStateIndex,
  MaxTransitionIndex,
  NoTurn

VARIABLES
  npcNodes,     \* nodes with an NPC text
  transitions   \* those that lead to a state: [from, index, to]

Node == [scene : Scenes, state : 0..MaxStateIndex]

Transition == [from : Node, index : 0..MaxTransitionIndex, to : Node]

Turn == [node : Node, response : 0..MaxTransitionIndex \cup {NoTurn}]

ASSUME ContextAssumption ==
  /\ Scenes \subseteq Nat /\ MaxStateIndex \in Nat /\ MaxTransitionIndex \in Nat
  /\ NoTurn \notin Turn

(* The order of incoming transitions: those of the same dialogue first, then by *)
(* dialogue, state and transition.                                              *)
ForeignRank(t) == IF t.from.scene = t.to.scene THEN 0 ELSE t.from.scene + 1

Before(t, u) ==
  \/ ForeignRank(t) < ForeignRank(u)
  \/ ForeignRank(t) = ForeignRank(u) /\ t.from.state < u.from.state
  \/ t.from = u.from /\ t.index < u.index

Incoming(node) == {t \in transitions : t.to = node}

Usable(node, visited) ==
  {t \in Incoming(node) : t.from \notin visited /\ t.from \in npcNodes}

Nearest(ts) == CHOOSE t \in ts : \A u \in ts \ {t} : Before(t, u)

(* Without one, the state before, as the dialogue's author numbered them. *)
Preceding(node, visited) ==
  {n \in npcNodes : n.scene = node.scene /\ n.state + 1 = node.state} \ visited

(* _previous_context: the transition answered by the player, or none. *)
Previous(node, visited) ==
  LET usable == Usable(node, visited)
      preceding == Preceding(node, visited)
  IN IF usable # {} THEN [node |-> Nearest(usable).from, response |-> Nearest(usable).index]
       ELSE IF preceding # {} THEN [node |-> CHOOSE n \in preceding : TRUE, response |-> NoTurn]
       ELSE NoTurn

(* What is not walked into again: the line only. *)
VisitedLine(line, turns) == {line}

(* The line and the turns so far. *)
Visited(line, turns) == {line} \cup {turns[i].node : i \in DOMAIN turns}

(* dialogue_history, nearest turn first. *)
Extended(line, turns) ==
  LET target == IF turns = <<>> THEN line ELSE Last(turns).node
      turn == Previous(target, Visited(line, turns))
  IN IF turn = NoTurn THEN turns ELSE Append(turns, turn)

History(line) == Extended(line, Extended(line, <<>>))

----------------------------------------------------------------------------
(* Cycles, loops of a state to itself and dialogues that call each other never  *)
(* make a scene its own past: the line and its turns are all different states   *)
(* with an NPC text, each followed by the next one, by a transition of the game *)
(* or by number. The numbering is a last resort: as long as the game has a      *)
(* transition to a line from some other state with a text, however many silent  *)
(* states or loops come before it in order, the nearest turn is such a state -  *)
(* of the same dialogue if there is one (dialogue_history, _previous_context).  *)
HistoryIsPath ==
  \A line \in npcNodes :
    LET turns == History(line)
        at(i) == IF i = 0 THEN line ELSE turns[i].node
        known == {t.from : t \in Incoming(line)} \cap (npcNodes \ {line})
    IN /\ \A i \in DOMAIN turns :
            /\ at(i) \in npcNodes
            /\ \A j \in 0..(i - 1) : at(j) # at(i)
            /\ \/ [from |-> at(i), index |-> turns[i].response, to |-> at(i - 1)] \in transitions
               \/ turns[i].response = NoTurn /\ at(i).scene = at(i - 1).scene
       /\ known # {} =>
            /\ turns # <<>> /\ Head(turns).node \in known
            /\ (\E n \in known : n.scene = line.scene) => Head(turns).node.scene = line.scene
=============================================================================
