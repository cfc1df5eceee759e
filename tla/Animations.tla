------------------------------ MODULE Animations ----------------------------
(***************************************************************************)
(* The menu's modal: a tree of Animated components (src/src/components) that *)
(* appears and goes away with CSS animations, and whose promises wait for    *)
(* the events these end with.  The browser queues an event when an animation *)
(* ends, or is cancelled because the element's class changes or it is        *)
(* removed; the event bubbles until a listener stops it.                    *)
(***************************************************************************)
EXTENDS Integers, FiniteSets

CONSTANTS
  Element,     \* the modal and the components in it
  Modal,       \* the root
  ParentOf,    \* ParentOf[e], of every other element
  CloseButton, \* the element whose click destroys the modal
  MaxClicks    \* BOUND: clicks on it

ASSUME AnimationsAssumption ==
  /\ {Modal, CloseButton} \subseteq Element /\ MaxClicks \in Nat
  /\ ParentOf \in [Element \ {Modal} -> Element]

VARIABLES
  op,         \* Animated.op: how many operations the modal has started
  class,      \* "none", "visible", "hidden": what the last one gave all elements
  placed,     \* the elements in the document
  playing,    \* those whose animation runs
  events,     \* events to dispatch: [el, type]
  listening,  \* listeners: [el, op, type], of the operation that added them
  waiting,    \* elements whose own animation the last operation waits for
  settled,    \* elements whose promise of the last operation is resolved
  disabled,   \* the menu button, until modal.create() is
  closed      \* how often afterClose was called

aVars == <<op, class, placed, playing, events, listening, waiting, settled, disabled, closed>>

Type == {"animationend", "animationcancel"}
Children(e) == {c \in Element \ {Modal} : ParentOf[c] = e}
Ev(e, type) == [el |-> e, type |-> type]

AnimationsInit ==
  /\ op = 0 /\ class = "none"
  /\ placed = {} /\ playing = {} /\ events = {} /\ listening = {}
  /\ waiting = {} /\ settled = {}
  /\ disabled = FALSE /\ closed = 0

-----------------------------------------------------------------------------
(* startOperation: the signal of the operation before is aborted, which      *)
(* takes its listeners away and resolves what it promised.                  *)
(* MUTANT: it is not.                                                       *)
KeptListeners(l) == l
Kept(l) == {}
Pending == op > 0 /\ Modal \notin settled

(* An element's promise resolves when its own animation and its children's    *)
(* promises have, in microtasks: nothing else happens in between.            *)
Ready(e) == op > 0 /\ e \notin settled \union waiting /\ Children(e) \subseteq settled
Task == ~\E e \in Element : Ready(e)

(* create and destroy of the modal call those of its children at once.       *)
Operate(name) ==
  /\ op' = op + 1 /\ class' = name
  /\ IF class = name THEN UNCHANGED <<playing, events>>
     ELSE /\ playing' = placed'
          /\ events' = events \union {Ev(e, "animationcancel") : e \in playing}
  /\ listening' = Kept(listening)
                    \union {[el |-> e, op |-> op', type |-> t] : e \in Element, t \in Type}
  /\ waiting' = Element /\ settled' = {}

(* The handler of MenuAccess.                                               *)
OpenModal ==
  /\ op = 0
  /\ placed' = Element
  /\ Operate("visible")
  /\ disabled' = TRUE
  /\ UNCHANGED closed

(* The click listener of the close button.  What an operation interrupts     *)
(* resolves: modal.create() or a destroy(), whose afterClose follows.       *)
ClickClose ==
  /\ Task /\ CloseButton \in placed /\ op < MaxClicks + 1
  /\ UNCHANGED placed
  /\ Operate("hidden")
  /\ disabled' = FALSE
  /\ closed' = IF Pending /\ class = "hidden" THEN closed + 1 ELSE closed

-----------------------------------------------------------------------------
(* The browser.                                                             *)
AnimationEnds(e) ==
  /\ Task /\ e \in playing /\ playing' = playing \ {e}
  /\ events' = events \union {Ev(e, "animationend")}
  /\ UNCHANGED <<op, class, placed, listening, waiting, settled, disabled, closed>>

(* The listeners an event meets, on its way up through the document: the     *)
(* oldest of the first element that has any stops it immediately.           *)
Path[e \in Element] == IF e = Modal THEN {e} ELSE {e} \union Path[ParentOf[e]]
Above(e) == IF e \in placed THEN Path[e] ELSE {e}
Meets(v) == {l \in listening : l.type = v.type /\ l.el \in Above(v.el)}
Stopper(v) ==
  {l \in Meets(v) : \A m \in Meets(v) :
     \/ l.el # m.el /\ m.el \in Above(l.el)
     \/ l.el = m.el /\ l.op <= m.op}

Dispatch(v) ==
  /\ Task /\ v \in events /\ events' = events \ {v}
  /\ listening' = listening \ Stopper(v)
  /\ waiting' = waiting \ {l.el : l \in {m \in Stopper(v) : m.op = op}}
  /\ UNCHANGED <<op, class, placed, playing, settled, disabled, closed>>

-----------------------------------------------------------------------------
(* The end of create(), and of destroy(), which takes the element out of the *)
(* document.                                                                *)
SettleCreate(e) ==
  /\ class = "visible" /\ Ready(e)
  /\ settled' = settled \union {e}
  /\ disabled' = (disabled /\ e # Modal)
  /\ UNCHANGED <<op, class, placed, playing, events, listening, waiting, closed>>

SettleDestroy(e) ==
  /\ class = "hidden" /\ Ready(e)
  /\ settled' = settled \union {e}
  /\ placed' = placed \ {e} /\ playing' = playing \ {e}
  /\ events' = IF e \in playing THEN events \union {Ev(e, "animationcancel")} ELSE events
  /\ closed' = IF e = Modal THEN closed + 1 ELSE closed
  /\ UNCHANGED <<op, class, listening, waiting, disabled>>

Browser(e) ==
  \/ AnimationEnds(e) \/ SettleCreate(e) \/ SettleDestroy(e)
  \/ \E t \in Type : Dispatch(Ev(e, t))
AnimationsNext == OpenModal \/ ClickClose \/ \E e \in Element : Browser(e)

(* Animations end and their events are dispatched; nobody has to click.      *)
AnimationsFairness == \A e \in Element : WF_aVars(Browser(e))

-----------------------------------------------------------------------------
(* A menu that is closed once goes away, also while it is still appearing,   *)
(* and lets its game go on; the button that opened it works again.  Events   *)
(* of older animations, children that end first and listeners left over are  *)
(* what could keep a promise from resolving (Component.ts:136-206,          *)
(* Animated.ts:40-74).                                                      *)
MenuSettles ==
  op > 0 ~> ~disabled /\ (class = "hidden" => Modal \notin placed /\ closed > 0)
=============================================================================
