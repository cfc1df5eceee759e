------------------------------ MODULE SillyName ------------------------------
(***************************************************************************)
(* The menu's footer (src/src/components/SillyName): a made-up author, a     *)
(* new one every two seconds, until five clicks discover the real one.  The  *)
(* names come from interval() (src/src/util/time/interval.ts), whose one     *)
(* chain of frames and timers is aborted by the discovery and when the menu  *)
(* is unmounted, wherever it then stands.  Each footer is in a page of its   *)
(* own; the pages share the flag of the discovery through localStorage.      *)
(***************************************************************************)
EXTENDS Integers

CONSTANTS
  Footer,
  DiscoverCount   \* DISCOVER_COUNT, 5 in the code

ASSUME SillyNameAssumption == DiscoverCount \in Nat \ {0}

VARIABLES
  mounted,    \* "before", "shown", "gone"
  text,       \* what the footer says
  chain,      \* where its interval stands
  aborted,    \* controller.signal.aborted
  counter,
  inClick,
  flag,       \* localStorage's easterEggDiscovered
  knows,      \* what each page's createFlag says of it
  crossed     \* history: the abort came while a name was being fetched

nVars == <<mounted, text, chain, aborted, counter, inClick, flag, knows, crossed>>

\* "callback": a name is awaited; "timer": setTimeout; "frame": requestAnimationFrame
Chain == {"callback", "timer", "frame", "over"}

SillyNameInit ==
  /\ mounted = [f \in Footer |-> "before"]
  /\ text = [f \in Footer |-> "empty"]
  /\ chain = [f \in Footer |-> "over"]
  /\ aborted = [f \in Footer |-> FALSE]
  /\ counter = [f \in Footer |-> 0]
  /\ inClick = [f \in Footer |-> FALSE]
  /\ flag \in BOOLEAN
  /\ knows = [f \in Footer |-> flag]
  /\ crossed = [f \in Footer |-> FALSE]

ShowURL(f) == text' = [text EXCEPT ![f] = "url"]
SetCounter(f) == counter' = [counter EXCEPT ![f] = @ + 1]

(* The constructor, when the menu is opened.  The interval is `leading': its *)
(* first frame runs at once.                                                *)
Mount(f) ==
  /\ mounted[f] = "before" /\ mounted' = [mounted EXCEPT ![f] = "shown"]
  /\ IF knows[f] THEN ShowURL(f) /\ UNCHANGED chain
     ELSE chain' = [chain EXCEPT ![f] = "callback"] /\ UNCHANGED text
  /\ UNCHANGED <<aborted, counter, inClick, flag, knows, crossed>>

-----------------------------------------------------------------------------
(* interval().                                                              *)

(* fetchSillyName answers; the chain goes on although it may be aborted.    *)
NameArrives(f) ==
  /\ chain[f] = "callback" /\ chain' = [chain EXCEPT ![f] = "timer"]
  /\ text' = [text EXCEPT ![f] = "name"]
  /\ UNCHANGED <<mounted, aborted, counter, inClick, flag, knows, crossed>>

\* the words could not be loaded: `done' rejects
FetchFails(f) ==
  /\ chain[f] = "callback" /\ chain' = [chain EXCEPT ![f] = "over"]
  /\ text' = [text EXCEPT ![f] = "fallback"]
  /\ UNCHANGED <<mounted, aborted, counter, inClick, flag, knows, crossed>>

TimerFires(f) ==
  /\ chain[f] = "timer" /\ chain' = [chain EXCEPT ![f] = "frame"]
  /\ UNCHANGED <<mounted, text, aborted, counter, inClick, flag, knows, crossed>>

(* MUTANT: a frame leaves it to the abort listener to end the chain.        *)
FrameUnchecked(f) ==
  /\ chain[f] = "frame" /\ chain' = [chain EXCEPT ![f] = "callback"]
  /\ UNCHANGED <<mounted, text, aborted, counter, inClick, flag, knows, crossed>>

Frame(f) ==
  /\ chain[f] = "frame"
  /\ chain' = [chain EXCEPT ![f] = IF aborted[f] THEN "over" ELSE "callback"]
  /\ UNCHANGED <<mounted, text, aborted, counter, inClick, flag, knows, crossed>>

(* controller.abort(): the listener ends the chain where a timer is set.  A  *)
(* frame that is requested, or a name that is fetched, comes all the same.  *)
AbortChain(f) ==
  /\ aborted' = [aborted EXCEPT ![f] = TRUE]
  /\ chain' = [chain EXCEPT ![f] = IF @ = "timer" THEN "over" ELSE @]
  /\ crossed' = [crossed EXCEPT ![f] = @ \/ chain[f] = "callback"]

-----------------------------------------------------------------------------
Undiscovered(f) == mounted[f] = "shown" /\ text[f] # "url" /\ counter[f] < DiscoverCount

(* The click listener, which ignores clicks during its animation.           *)
Click(f) ==
  /\ Undiscovered(f) /\ ~inClick[f]
  /\ inClick' = [inClick EXCEPT ![f] = TRUE]
  /\ UNCHANGED <<mounted, text, chain, aborted, counter, flag, knows, crossed>>

(* The animation has ended (it never does in a footer that was removed).    *)
Count(f) ==
  /\ Undiscovered(f) /\ inClick[f] /\ counter[f] + 1 < DiscoverCount
  /\ inClick' = [inClick EXCEPT ![f] = FALSE]
  /\ SetCounter(f)
  /\ UNCHANGED <<mounted, text, chain, aborted, flag, knows, crossed>>

Discover(f) ==
  /\ Undiscovered(f) /\ inClick[f] /\ counter[f] + 1 = DiscoverCount
  /\ inClick' = [inClick EXCEPT ![f] = FALSE]
  /\ SetCounter(f)
  /\ flag' = TRUE /\ knows' = [knows EXCEPT ![f] = TRUE]
  /\ ShowURL(f)
  /\ AbortChain(f)
  /\ UNCHANGED mounted

\* the storage event of another page's discovery
HearOfIt(f) ==
  /\ flag /\ ~knows[f] /\ knows' = [knows EXCEPT ![f] = TRUE]
  /\ UNCHANGED <<mounted, text, chain, aborted, counter, inClick, flag, crossed>>

(* The menu is closed and its component unmounted.                          *)
Destroy(f) ==
  /\ mounted[f] = "shown" /\ mounted' = [mounted EXCEPT ![f] = "gone"]
  /\ AbortChain(f)
  /\ UNCHANGED <<text, counter, inClick, flag, knows>>

Chained(f) == NameArrives(f) \/ FetchFails(f) \/ TimerFires(f) \/ Frame(f)
SillyNameNext ==
  \E f \in Footer : Mount(f) \/ Chained(f) \/ Click(f) \/ Count(f) \/ Discover(f)
                    \/ HearOfIt(f) \/ Destroy(f)

(* Imports settle, timers fire and a page that is shown renders.            *)
SillyNameFairness == \A f \in Footer : WF_nVars(Chained(f))
SillyNameSpec == SillyNameInit /\ [][SillyNameNext]_nVars

-----------------------------------------------------------------------------
(* The footer of a menu that was closed, or that told its secret, comes to   *)
(* rest for good wherever its interval was interrupted (interval.ts:107-135),*)
(* and the discovered author stays: only a name that was being fetched at    *)
(* the fifth click can take his place (SillyName/index.ts:55, 82-84).        *)
FooterSettles ==
  \A f \in Footer :
    aborted[f] ~> [](chain[f] = "over"
                     /\ (counter[f] = DiscoverCount /\ ~crossed[f] => text[f] = "url"))
=============================================================================
