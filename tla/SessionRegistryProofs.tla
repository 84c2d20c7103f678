----------------------- MODULE SessionRegistryProofs -----------------------
(***************************************************************************)
(* Theorems about SessionRegistry, for any number of requests and bounds.  *)
(*                                                                         *)
(* Types, and two terminalIds never share a window.  A request that has    *)
(* captured a descriptor writes it to the registry later, whatever has     *)
(* happened to the entry since, so the inductive invariant IInv speaks of  *)
(* the descriptors in flight as well: a window has one id over the         *)
(* registry and the requests together, and a window that has no id yet is  *)
(* in the hands of one request only.  All that follows rests on it:        *)
(*   - entries that live are routed (RouteIInv);                           *)
(*   - the cap is overrun by the requests in flight at most (SizeIInv);    *)
(*   - a restart registers the windows that survived (AdoptIInv);          *)
(*   - no window leaks (OrphanIInv): an id that the counter gave goes with *)
(*     one window only, over the registry and the requests together.       *)
(* The last two except the windows that the code lets go, which lost       *)
(* records; they hold for any titles, faults, restarts and foreign windows.*)
(***************************************************************************)
EXTENDS SessionRegistry, FiniteSetTheorems, TLAPS

Used == 0..nextWindow - 1      \* the windows tmux has opened so far

\* The stages in which a request holds an id and a window.
NamedStages == Stages \ {"idle", "new-window", "slug"}
Named(r) == req[r].stage \in NamedStages
HasWindow(r) == Named(r) \/ req[r].stage = "slug"

\* What a request holds at each stage.
RequestsOK ==
    \A r \in Requests :
        /\ HasWindow(r) => req[r].windowId \in Used
        /\ Named(r) => req[r].id \in Ids /\ req[r].title \in Text
        /\ req[r].stage \in {"rename-new", "rename-window"} => req[r].title \in Names
        /\ req[r].stage \in {"new-window", "slug"} => req[r].title \in Titles \cup {NoTitle}

BoundsOK ==
    /\ crashes <= MaxCrashes
    /\ nextWindow <= MaxWindows + crashes + (IF phase = "down" THEN 0 ELSE 1)
    /\ phase # "up" => \A r \in Requests : req[r] = Idle
    /\ \A id \in DOMAIN registry : registry[id].windowId \in Used

\* One id per window over the registry and the requests.
RequestsAgree ==
    /\ \A r \in Requests, id \in DOMAIN registry :
          HasWindow(r) /\ registry[id].windowId = req[r].windowId
              => Named(r) /\ id = req[r].id
    /\ \A r, s \in Requests :
          HasWindow(r) /\ HasWindow(s) /\ req[r].windowId = req[s].windowId
              => r = s \/ (Named(r) /\ Named(s) /\ req[r].id = req[s].id)

IInv == TypeOK /\ RequestsOK /\ BoundsOK /\ OneIdPerWindow /\ RequestsAgree

----------------------------------------------------------------------------
\* The sets a window, an id and a title are drawn from.
LEMMA ConstantFacts ==
    /\ MaxWindows \in Nat /\ MaxCrashes \in Nat
    /\ WindowLimit \in Nat /\ WindowLimit = MaxWindows + MaxCrashes + 1
    /\ \A w : w \in Windows <=> (w \in Int /\ 0 <= w /\ w < WindowLimit)
    /\ \A n \in Names : SlugOf(n) \in BaseIds
    /\ \A k \in Counters : AutoId(k) \in BaseIds /\ AutoId(k) \in Names
    /\ BaseIds \subseteq Ids
    /\ Titles \subseteq Names /\ EmptyTitle \in Names /\ ShellName \in Names
    /\ Names \subseteq Text /\ Ids \subseteq Text
    /\ NoTitle \notin Titles
    /\ \A i \in BaseIds, k \in Counters : Suffixed(i, k) \in Ids
  <1>1. MaxWindows \in Nat /\ MaxCrashes \in Nat
    BY ConstantsAssumption
  <1>2. WindowLimit \in Nat /\ WindowLimit = MaxWindows + MaxCrashes + 1
    BY <1>1 DEF WindowLimit
  <1>3. \A w : w \in Windows <=> (w \in Int /\ 0 <= w /\ w < WindowLimit)
    BY <1>2 DEF Windows
  <1>4. \A k \in Counters : AutoId(k) \in BaseIds /\ AutoId(k) \in Names
    BY DEF AutoIds, BaseIds, Names
  <1> QED
    BY <1>1, <1>2, <1>3, <1>4, ConstantsAssumption DEF BaseIds, Names, Ids, Text

\* An entry of the registry has the types of a descriptor; a new one keeps them.
LEMMA SetEntryType ==
    ASSUME NEW f, NEW S, NEW T, f \in [DOMAIN f -> T], DOMAIN f \subseteq S,
           NEW k \in S, NEW v \in T
    PROVE  /\ DOMAIN MapSet(f, k, v) \subseteq S
           /\ MapSet(f, k, v) \in [DOMAIN MapSet(f, k, v) -> T]
  BY DEF MapSet

----------------------------------------------------------------------------
LEMMA InitIInv == Init => IInv
  <1> SUFFICES ASSUME Init PROVE IInv
    OBVIOUS
  <1> USE DEF Init
  <1>1. req = [r \in Requests |-> Idle] /\ \A r \in Requests : req[r] = Idle
    OBVIOUS
  <1>2. DOMAIN EmptyMap = {}
    BY DEF EmptyMap
  <1>3. Idle \in [stage : Stages, id : Ids \cup {NoId},
                  windowId : Windows \cup {NoWindow}, title : Text \cup {NoTitle}]
    BY DEF Idle, Stages
  <1>4. TypeOK
    <2>1. EmptyMap \in [{} -> WindowRows] /\ EmptyMap \in [{} -> Descriptors]
      BY DEF EmptyMap
    <2> QED
      BY <1>1, <1>2, <1>3, <2>1, ConstantFacts DEF TypeOK, Phases
  <1>5. RequestsOK
    BY <1>1 DEF RequestsOK, HasWindow, Named, NamedStages, Idle
  <1>6. BoundsOK
    BY <1>1, <1>2, ConstantFacts DEF BoundsOK
  <1>7. OneIdPerWindow /\ RequestsAgree
    BY <1>1, <1>2 DEF OneIdPerWindow, RequestsAgree, HasWindow, Named, NamedStages, Idle
  <1> QED
    BY <1>4, <1>5, <1>6, <1>7 DEF IInv

----------------------------------------------------------------------------
\* tmux opens a window whose id was not used before.
LEMMA OpenWindowFacts ==
    ASSUME TypeOK, OpenWindow, nextWindow < WindowLimit
    PROVE  /\ nextWindow' = nextWindow + 1 /\ nextWindow' \in 0..WindowLimit
           /\ DOMAIN windows' \subseteq 0..nextWindow' - 1
           /\ windows' \in [DOMAIN windows' -> WindowRows]
           /\ nextWindow \in Windows /\ nextWindow \notin Used
           /\ Used \subseteq Used' /\ nextWindow \in Used'
  <1> USE ConstantFacts
  <1>1. PICK i \in 0..WindowLimit :
            windows' = MapSet(windows, nextWindow, [name |-> ShellName, index |-> i])
    BY DEF OpenWindow
  <1>2. nextWindow' = nextWindow + 1 /\ nextWindow \in Nat
    BY DEF OpenWindow, TypeOK
  <1>3. [name |-> ShellName, index |-> i] \in WindowRows
    BY DEF WindowRows
  <1>4. DOMAIN windows \subseteq 0..nextWindow' - 1 /\ nextWindow \in 0..nextWindow' - 1
    BY <1>2 DEF TypeOK
  <1>5. windows \in [DOMAIN windows -> WindowRows]
    BY DEF TypeOK
  <1>6. /\ DOMAIN windows' \subseteq 0..nextWindow' - 1
        /\ windows' \in [DOMAIN windows' -> WindowRows]
    BY <1>1, <1>3, <1>4, <1>5, SetEntryType
  <1> QED
    BY <1>2, <1>6 DEF Used

\* Windows that are let go of were opened.
LEMMA LetGoFacts ==
    ASSUME TypeOK, NEW ws, LetGo(ws)
    PROVE  lost' \subseteq Used /\ lost \subseteq lost' /\ ws \cap DOMAIN windows \subseteq lost'
  BY DEF TypeOK, LetGo, Used

\* The boot actions keep the invariant: no request is in flight.
LEMMA BootIInv ==
    ASSUME IInv, Boot
    PROVE  IInv'
  <1> USE ConstantFacts
  <1> USE DEF IInv
  <1>0. nextWindow \in Nat /\ crashes \in Nat
    BY DEF TypeOK
  <1>1. CASE EnsureSession
    <2>1. phase = "down" /\ phase' = "sync" /\ nextWindow < WindowLimit
      BY <1>1, <1>0 DEF EnsureSession, BoundsOK
    <2>2. \/ OpenWindow
          \/ UNCHANGED tmuxVars
      BY <1>1 DEF EnsureSession
    <2>3. UNCHANGED <<listing, todo, adopted, brokerVars, req, boundVars, lost>>
      BY <1>1 DEF EnsureSession
    <2>4. \A r \in Requests : req'[r] = Idle
      BY <2>1, <2>3 DEF BoundsOK
    <2>5. TypeOK' /\ Used \subseteq Used' /\ nextWindow' \in Nat /\ nextWindow' <= nextWindow + 1
      <3>1. CASE OpenWindow
        BY <2>1, <2>3, <3>1, OpenWindowFacts DEF TypeOK, Phases, brokerVars, boundVars, Used
      <3>2. CASE UNCHANGED tmuxVars
        BY <2>1, <2>3, <3>2, <1>0 DEF TypeOK, Phases, tmuxVars, brokerVars, boundVars, Used
      <3> QED
        BY <2>2, <3>1, <3>2
    <2>6. BoundsOK'
      BY <2>1, <2>3, <2>4, <2>5, <1>0 DEF BoundsOK, brokerVars, boundVars
    <2>7. RequestsOK' /\ RequestsAgree' /\ OneIdPerWindow'
      BY <2>3, <2>4 DEF RequestsOK, RequestsAgree, OneIdPerWindow, HasWindow, Named,
                        NamedStages, Idle, brokerVars
    <2> QED
      BY <2>5, <2>6, <2>7
  <1>2. CASE SyncPaneMap
    <2>1. TypeOK'
      BY <1>2 DEF SyncPaneMap, TypeOK, Phases, tmuxVars
    <2>2. RequestsOK' /\ RequestsAgree' /\ OneIdPerWindow'
      BY <1>2 DEF SyncPaneMap, RequestsOK, RequestsAgree, OneIdPerWindow, HasWindow, Named,
                  Used, tmuxVars
    <2>3. BoundsOK'
      BY <1>2 DEF SyncPaneMap, BoundsOK, Used, tmuxVars
    <2> QED
      BY <2>1, <2>2, <2>3
  <1>3. CASE ListWindows
    <2>1. /\ DOMAIN registry' \subseteq DOMAIN registry
          /\ \A id \in DOMAIN registry' : registry'[id] = registry[id]
          /\ registry' \in [DOMAIN registry' -> Descriptors]
      BY <1>3 DEF ListWindows, TypeOK
    <2>2. /\ DOMAIN listing' \subseteq Used
          /\ listing' \in [DOMAIN listing' -> WindowRows]
          /\ todo' \subseteq DOMAIN listing' /\ lost' \subseteq Used
      BY <1>3 DEF ListWindows, TypeOK, Used
    <2>3. UNCHANGED <<tmuxVars, adopted, paneToWindow, windowCounter, req, crashes>>
          /\ phase = "list" /\ phase' \in {"adopt", "up"}
      BY <1>3 DEF ListWindows
    <2>4. {foreign, exits, faults, crashes}' \subseteq Nat
      BY <1>3 DEF ListWindows, TypeOK
    <2>5. TypeOK'
      BY <2>1, <2>2, <2>3, <2>4 DEF TypeOK, Phases, tmuxVars, Used
    <2>6. \A r \in Requests : req'[r] = Idle
      BY <2>3 DEF BoundsOK
    <2>7. RequestsOK' /\ RequestsAgree'
      BY <2>6 DEF RequestsOK, RequestsAgree, HasWindow, Named, NamedStages, Idle
    <2>8. BoundsOK' /\ OneIdPerWindow'
      BY <2>1, <2>3, <2>6, <1>0 DEF BoundsOK, OneIdPerWindow, Used, tmuxVars
    <2> QED
      BY <2>5, <2>7, <2>8
  <1>4. CASE FinishBoot
    <2>1. TypeOK'
      BY <1>4 DEF FinishBoot, TypeOK, Phases, EmptyMap, tmuxVars, brokerVars, boundVars
    <2>2. RequestsOK' /\ RequestsAgree' /\ OneIdPerWindow'
      BY <1>4 DEF FinishBoot, RequestsOK, RequestsAgree, OneIdPerWindow, HasWindow, Named,
                  Used, tmuxVars, brokerVars
    <2>3. BoundsOK'
      BY <1>4 DEF FinishBoot, BoundsOK, Used, tmuxVars, brokerVars, boundVars
    <2> QED
      BY <2>1, <2>2, <2>3
  <1>5. ASSUME NEW w \in Windows, AdoptWindow(w)
        PROVE  IInv'
    <2>1. /\ UNCHANGED <<tmuxVars, phase, listing, paneToWindow, req, foreign, exits, crashes>>
          /\ phase = "adopt" /\ w \in todo /\ todo' = todo \ {w}
      BY <1>5 DEF AdoptWindow
    <2>2. w \in DOMAIN listing /\ w \in Used /\ listing[w].name \in Names
      BY <2>1 DEF TypeOK, Used, WindowRows
    <2>3. \A r \in Requests : req'[r] = Idle
      BY <2>1 DEF BoundsOK
    <2>4. RequestsOK' /\ RequestsAgree'
      BY <2>3 DEF RequestsOK, RequestsAgree, HasWindow, Named, NamedStages, Idle
    <2>5. windowCounter' \in 0..WindowLimit /\ faults' \in Nat
      BY <1>5 DEF AdoptWindow, TypeOK, CommandSucceeds, CommandFails
    <2>6. \/ UNCHANGED <<registry, adopted>> /\ lost' \subseteq Used
          \/ /\ w \notin RegisteredWindows
             /\ \E id \in Ids, title \in Text :
                    /\ registry' = MapSet(registry, id, [windowId |-> w, title |-> title])
                    /\ adopted' = adopted \cup {id}
             /\ lost' \subseteq Used
      <3>1. CASE w \in RegisteredWindows
        BY <1>5, <3>1 DEF AdoptWindow, TypeOK, Used
      <3>2. CASE w \notin RegisteredWindows
        <4> DEFINE name == listing[w].name
                   id == AdoptedId(name, windowCounter')
                   title == IF name = EmptyTitle THEN id ELSE name
        <4>1. windowCounter' \in Counters
          BY <1>5, <3>2, <2>5 DEF AdoptWindow, TypeOK, Counters
        <4>2. id \in Ids
          BY <4>1, <2>2 DEF AdoptedId, BaseId
        <4>3. title \in Text
          BY <4>2, <2>2
        <4>4. \/ /\ registry' = MapSet(registry, id, [windowId |-> w, title |-> title])
                 /\ adopted' = adopted \cup {id} /\ LetGo(Buried(name, windowCounter'))
              \/ UNCHANGED <<registry, adopted>> /\ LetGo({w})
          BY <1>5, <3>2 DEF AdoptWindow
        <4>5. lost' \subseteq Used
          BY <4>4, LetGoFacts
        <4> HIDE DEF id, title, name
        <4> QED
          BY <4>2, <4>3, <4>4, <4>5, <3>2
      <3> QED
        BY <3>1, <3>2
    <2>7. CASE UNCHANGED <<registry, adopted>> /\ lost' \subseteq Used
      <3>1. TypeOK'
        BY <2>1, <2>5, <2>7 DEF TypeOK, Used, tmuxVars
      <3>2. BoundsOK' /\ OneIdPerWindow'
        BY <2>1, <2>3, <2>7 DEF BoundsOK, OneIdPerWindow, Used, tmuxVars
      <3> QED
        BY <2>4, <3>1, <3>2
    <2>8. ASSUME w \notin RegisteredWindows, NEW id \in Ids, NEW title \in Text,
                 registry' = MapSet(registry, id, [windowId |-> w, title |-> title]),
                 adopted' = adopted \cup {id}, lost' \subseteq Used
          PROVE  IInv'
      <3>1. [windowId |-> w, title |-> title] \in Descriptors
        BY DEF Descriptors
      <3>2. DOMAIN registry' \subseteq Ids /\ registry' \in [DOMAIN registry' -> Descriptors]
        BY <2>8, <3>1, SetEntryType DEF TypeOK
      <3>3. TypeOK'
        BY <2>1, <2>5, <2>8, <3>2 DEF TypeOK, Used, tmuxVars
      <3>4. /\ DOMAIN registry' = DOMAIN registry \cup {id}
            /\ registry'[id].windowId = w
            /\ \A i \in DOMAIN registry : i # id => registry'[i] = registry[i]
        BY <2>8 DEF MapSet
      <3>5. OneIdPerWindow'
        BY <3>4, <2>8 DEF OneIdPerWindow, RegisteredWindows
      <3>6. BoundsOK'
        BY <3>4, <2>1, <2>2, <2>3 DEF BoundsOK, Used, tmuxVars
      <3> QED
        BY <2>4, <3>3, <3>5, <3>6
    <2> QED
      BY <2>6, <2>7, <2>8
  <1> QED
    BY <1>1, <1>2, <1>3, <1>4, <1>5 DEF Boot

----------------------------------------------------------------------------
\* The type of a request record.
RequestRecords == [stage : Stages, id : Ids \cup {NoId},
                   windowId : Windows \cup {NoWindow}, title : Text \cup {NoTitle}]

\* Request r goes on to another stage or returns; the others stay.
Moves(r) ==
    /\ phase = "up" /\ UNCHANGED <<phase, crashes, nextWindow>>
    /\ \A s \in Requests \ {r} : req'[s] = req[s]
    /\ req' \in [Requests -> RequestRecords]

\* r keeps what it holds, if anything.
KeepsClaim(r) ==
    \/ req'[r] = Idle
    \/ /\ Named(r) /\ req'[r].stage \in NamedStages \ {"rename-new", "rename-window"}
       /\ req'[r].id = req[r].id /\ req'[r].windowId = req[r].windowId
       /\ req'[r].title = req[r].title

\* Goto and Return change one request only.
LEMMA GotoFacts ==
    ASSUME TypeOK, NEW r \in Requests, NEW v \in RequestRecords,
           req' = [req EXCEPT ![r] = v]
    PROVE  /\ req'[r] = v
           /\ \A s \in Requests \ {r} : req'[s] = req[s]
           /\ req' \in [Requests -> RequestRecords]
  BY DEF TypeOK, RequestRecords

LEMMA StageFacts ==
    ASSUME TypeOK, NEW r \in Requests, NEW st \in Stages, Goto(r, st)
    PROVE  /\ req'[r].stage = st /\ req'[r].id = req[r].id
           /\ req'[r].windowId = req[r].windowId /\ req'[r].title = req[r].title
           /\ \A s \in Requests \ {r} : req'[s] = req[s]
           /\ req' \in [Requests -> RequestRecords]
  BY DEF TypeOK, RequestRecords, Goto

LEMMA ReturnFacts ==
    ASSUME TypeOK, NEW r \in Requests, Return(r)
    PROVE  /\ req'[r] = Idle
           /\ \A s \in Requests \ {r} : req'[s] = req[s]
           /\ req' \in [Requests -> RequestRecords]
  <1>1. Idle \in RequestRecords
    BY DEF Idle, RequestRecords, Stages
  <1> QED
    BY <1>1 DEF TypeOK, RequestRecords, Return

\* A request that moves on without touching the registry, or deletes from it,
\* claims no new window.
LEMMA MoveKeepsAgreement ==
    ASSUME IInv, NEW r \in Requests, Moves(r), KeepsClaim(r),
           DOMAIN registry' \subseteq DOMAIN registry,
           \A id \in DOMAIN registry' : registry'[id] = registry[id]
    PROVE  RequestsOK' /\ BoundsOK' /\ OneIdPerWindow' /\ RequestsAgree'
  <1> USE DEF IInv
  <1>1. \A s \in Requests :
            \/ req'[s] = Idle
            \/ s # r /\ req'[s] = req[s]
            \/ /\ Named(s) /\ req'[s].stage \in NamedStages \ {"rename-new", "rename-window"}
               /\ req'[s].id = req[s].id /\ req'[s].windowId = req[s].windowId
               /\ req'[s].title = req[s].title
    BY DEF Moves, KeepsClaim
  <1>2. RequestsOK'
    BY <1>1 DEF RequestsOK, Moves, HasWindow, Named, NamedStages, Used, Idle
  <1>3. BoundsOK'
    BY DEF BoundsOK, Moves, Used
  <1>4. OneIdPerWindow'
    BY DEF OneIdPerWindow
  <1>5. \A s \in Requests : HasWindow(s)' =>
            /\ HasWindow(s) /\ req'[s].windowId = req[s].windowId
            /\ req'[s].id = req[s].id /\ (Named(s)' <=> Named(s))
    BY <1>1 DEF HasWindow, Named, NamedStages, Idle
  <1>6. RequestsAgree'
    BY <1>5 DEF RequestsAgree
  <1> QED
    BY <1>2, <1>3, <1>4, <1>6

\* A request that writes its captured descriptor writes a claim that agrees
\* with all others, whatever has become of the entry since it was captured.
LEMMA WriteKeepsAgreement ==
    ASSUME IInv, NEW r \in Requests, Moves(r), KeepsClaim(r), Named(r), SetEntry(r)
    PROVE  /\ RequestsOK' /\ BoundsOK' /\ OneIdPerWindow' /\ RequestsAgree'
           /\ DOMAIN registry' \subseteq Ids
           /\ registry' \in [DOMAIN registry' -> Descriptors]
  <1> USE ConstantFacts
  <1> USE DEF IInv
  <1> DEFINE id == req[r].id
             d == [windowId |-> req[r].windowId, title |-> req[r].title]
  <1>1. id \in Ids /\ req[r].windowId \in Used /\ req[r].title \in Text
    BY DEF RequestsOK, HasWindow
  <1>2. req[r].windowId \in Windows
    BY <1>1 DEF Used, TypeOK
  <1>3. d \in Descriptors
    BY <1>1, <1>2 DEF Descriptors
  <1>4. registry' = MapSet(registry, id, d)
    BY DEF SetEntry
  <1>5. DOMAIN registry' \subseteq Ids /\ registry' \in [DOMAIN registry' -> Descriptors]
    <2>1. DOMAIN registry \subseteq Ids /\ registry \in [DOMAIN registry -> Descriptors]
      BY DEF TypeOK
    <2> HIDE DEF d, id
    <2> QED
      BY <1>1, <1>3, <1>4, <2>1, SetEntryType DEF id
  <1>6. /\ DOMAIN registry' = DOMAIN registry \cup {id}
        /\ registry'[id].windowId = req[r].windowId
        /\ \A i \in DOMAIN registry : i # id => registry'[i] = registry[i]
    BY <1>4 DEF MapSet
  <1>7. \A s \in Requests :
            \/ req'[s] = Idle
            \/ s # r /\ req'[s] = req[s]
            \/ /\ Named(s) /\ req'[s].stage \in NamedStages \ {"rename-new", "rename-window"}
               /\ req'[s].id = req[s].id /\ req'[s].windowId = req[s].windowId
               /\ req'[s].title = req[s].title
    BY DEF Moves, KeepsClaim
  <1>8. RequestsOK'
    BY <1>7 DEF RequestsOK, Moves, HasWindow, Named, NamedStages, Used, Idle
  <1>9. BoundsOK'
    BY <1>1, <1>6 DEF BoundsOK, Moves, Used
  <1>10. \A i \in DOMAIN registry : registry[i].windowId = req[r].windowId => i = id
    BY DEF RequestsAgree, HasWindow
  <1>11. OneIdPerWindow'
    BY <1>6, <1>10 DEF OneIdPerWindow
  <1>12. \A s \in Requests : HasWindow(s)' =>
            /\ HasWindow(s) /\ req'[s].windowId = req[s].windowId
            /\ req'[s].id = req[s].id /\ (Named(s)' <=> Named(s))
    BY <1>7 DEF HasWindow, Named, NamedStages, Idle
  <1>13. \A s \in Requests : HasWindow(s) /\ req[s].windowId = req[r].windowId
            => Named(s) /\ req[s].id = id
    BY DEF RequestsAgree, HasWindow
  <1>14. RequestsAgree'
    BY <1>6, <1>12, <1>13 DEF RequestsAgree
  <1> QED
    BY <1>5, <1>8, <1>9, <1>11, <1>14

----------------------------------------------------------------------------
\* A client's request captures an entry as it stands, or nothing.
LEMMA CallIInv ==
    ASSUME IInv, NEW r \in Requests, Call(r)
    PROVE  IInv'
  <1> USE ConstantFacts
  <1> USE DEF IInv
  <1>1. ASSUME NEW title \in Titles \cup {NoTitle}, CreateBegin(r, title)
        PROVE  IInv'
    <2> DEFINE v == [Idle EXCEPT !.stage = "new-window", !.title = title]
    <2>1. v \in RequestRecords /\ v.stage = "new-window" /\ v.title = title
      BY DEF Idle, RequestRecords, Stages, CreateStages
    <2>2. req' = [req EXCEPT ![r] = v]
          /\ UNCHANGED <<tmuxVars, bootVars, brokerVars, boundVars, lost>> /\ phase = "up"
      BY <1>1 DEF CreateBegin, Idling
    <2> HIDE DEF v
    <2>3. /\ req'[r] = v
          /\ \A s \in Requests \ {r} : req'[s] = req[s]
          /\ req' \in [Requests -> RequestRecords]
      BY <2>1, <2>2, GotoFacts
    <2>4. TypeOK'
      BY <2>2, <2>3 DEF TypeOK, RequestRecords, tmuxVars, bootVars, brokerVars, boundVars
    <2>5. BoundsOK' /\ OneIdPerWindow'
      BY <2>2 DEF BoundsOK, OneIdPerWindow, Used, tmuxVars, bootVars, brokerVars, boundVars
    <2>6. \A s \in Requests : HasWindow(s)' => s # r
      BY <2>1, <2>3 DEF HasWindow, Named, NamedStages
    <2>7. RequestsOK'
      <3>1. ASSUME NEW s \in Requests, s # r
            PROVE  req'[s] = req[s] /\ (HasWindow(s)' <=> HasWindow(s)) /\ (Named(s)' <=> Named(s))
        BY <2>3, <3>1 DEF HasWindow, Named
      <3>2. ~HasWindow(r)' /\ ~Named(r)' /\ req'[r].stage = "new-window" /\ req'[r].title = title
        BY <2>1, <2>3, <2>6 DEF HasWindow
      <3> QED
        BY <3>1, <3>2, <2>2 DEF RequestsOK, Used, tmuxVars
    <2>8. RequestsAgree'
      BY <2>2, <2>3, <2>6 DEF RequestsAgree, HasWindow, Named, brokerVars
    <2> QED
      BY <2>4, <2>5, <2>7, <2>8
  <1>2. ASSUME NEW id \in DOMAIN registry, NEW st \in NamedStages \ {"rename-new"},
               NEW title \in Text, st = "rename-window" => title \in Names,
               req' = [req EXCEPT ![r] = [stage |-> st, id |-> id,
                            windowId |-> registry[id].windowId, title |-> title]],
               phase = "up", UNCHANGED <<tmuxVars, bootVars, brokerVars, boundVars, lost>>
        PROVE  IInv'
    <2> DEFINE v == [stage |-> st, id |-> id,
                     windowId |-> registry[id].windowId, title |-> title]
    <2>0. registry[id].windowId \in Windows /\ registry[id].windowId \in Used /\ id \in Ids
      BY DEF TypeOK, BoundsOK, Descriptors
    <2>1. v \in RequestRecords
      BY <2>0 DEF RequestRecords, NamedStages
    <2>2. /\ req'[r] = v
          /\ \A s \in Requests \ {r} : req'[s] = req[s]
          /\ req' \in [Requests -> RequestRecords]
      <3> HIDE DEF v
      <3> QED
        BY <2>1, <1>2, GotoFacts DEF v
    <2>3. TypeOK'
      BY <1>2, <2>2 DEF TypeOK, RequestRecords, tmuxVars, bootVars, brokerVars, boundVars
    <2>4. BoundsOK' /\ OneIdPerWindow'
      BY <1>2 DEF BoundsOK, OneIdPerWindow, Used, tmuxVars, bootVars, brokerVars, boundVars
    <2>5. /\ req'[r].stage = st /\ req'[r].id = id /\ req'[r].title = title
          /\ req'[r].windowId = registry[id].windowId
          /\ Named(r)' /\ HasWindow(r)'
      BY <2>2, <1>2 DEF HasWindow, Named
    <2>6. \A s \in Requests : s # r =>
              req'[s] = req[s] /\ (HasWindow(s)' <=> HasWindow(s)) /\ (Named(s)' <=> Named(s))
      BY <2>2 DEF HasWindow, Named
    <2>7. RequestsOK'
      BY <2>0, <2>5, <2>6, <1>2 DEF RequestsOK, Used, tmuxVars, NamedStages
    <2>8. \A i \in DOMAIN registry : registry[i].windowId = registry[id].windowId => i = id
      BY DEF OneIdPerWindow
    <2>9. \A s \in Requests : HasWindow(s) /\ req[s].windowId = registry[id].windowId
              => Named(s) /\ req[s].id = id
      BY DEF RequestsAgree
    <2>10. registry' = registry
      BY <1>2 DEF brokerVars
    <2>11. RequestsAgree'
      BY <2>5, <2>6, <2>8, <2>9, <2>10 DEF RequestsAgree
    <2> QED
      BY <2>3, <2>4, <2>7, <2>11
  <1>3. \A id \in DOMAIN registry : registry[id].title \in Text
    BY DEF TypeOK, Descriptors
  <1>4. ASSUME NEW id \in DOMAIN registry, DestroyBegin(r, id)
        PROVE  IInv'
    <2>1. req' = [req EXCEPT ![r] = [stage |-> "kill-window", id |-> id,
                    windowId |-> registry[id].windowId, title |-> registry[id].title]]
      BY <1>4 DEF DestroyBegin, Captured
    <2>2. "kill-window" \in NamedStages \ {"rename-new"}
      BY DEF NamedStages, Stages, CreateStages, WriteStages
    <2>3. phase = "up" /\ UNCHANGED <<tmuxVars, bootVars, brokerVars, boundVars, lost>>
      BY <1>4 DEF DestroyBegin, Idling
    <2> QED
      BY <1>2, <1>3, <2>1, <2>2, <2>3
  <1>5. ASSUME NEW id \in DOMAIN registry, GetBegin(r, id)
        PROVE  IInv'
    <2>1. req' = [req EXCEPT ![r] = [stage |-> "read-pids", id |-> id,
                    windowId |-> registry[id].windowId, title |-> registry[id].title]]
      BY <1>5 DEF GetBegin, Captured
    <2>2. "read-pids" \in NamedStages \ {"rename-new"}
      BY DEF NamedStages, Stages, CreateStages, WriteStages
    <2>3. phase = "up" /\ UNCHANGED <<tmuxVars, bootVars, brokerVars, boundVars, lost>>
      BY <1>5 DEF GetBegin, Idling
    <2> QED
      BY <1>2, <1>3, <2>1, <2>2, <2>3
  <1>6. ASSUME NEW id \in DOMAIN registry, NEW title \in Titles \ {EmptyTitle},
               RenameBegin(r, id, title)
        PROVE  IInv'
    <2>1. title \in Names /\ title \in Text
      OBVIOUS
    <2>2. req' = [req EXCEPT ![r] = [stage |-> "rename-window", id |-> id,
                    windowId |-> registry[id].windowId, title |-> title]]
      <3> DEFINE c == Captured(id, "rename-window")
      <3>1. [c EXCEPT !.title = title] = [stage |-> "rename-window", id |-> id,
                windowId |-> registry[id].windowId, title |-> title]
        BY DEF Captured
      <3> QED
        BY <1>6, <3>1 DEF RenameBegin
    <2>3. "rename-window" \in NamedStages \ {"rename-new"}
      BY DEF NamedStages, Stages, CreateStages, WriteStages
    <2>4. phase = "up" /\ UNCHANGED <<tmuxVars, bootVars, brokerVars, boundVars, lost>>
      BY <1>6 DEF RenameBegin, Idling
    <2> QED
      BY <1>2, <2>1, <2>2, <2>3, <2>4
  <1> QED
    BY <1>1, <1>4, <1>5, <1>6 DEF Call

----------------------------------------------------------------------------
\* A handler goes on after one of its child processes.
LEMMA ContinueIInv ==
    ASSUME IInv, NEW r \in Requests, Continue(r)
    PROVE  IInv'
  <1> USE ConstantFacts
  <1> USE DEF IInv
  <1>1. CASE NewWindow(r)
    <2>1. /\ OpenWindow /\ nextWindow < MaxWindows /\ nextWindow \in Nat
          /\ req[r].stage = "new-window" /\ phase = "up"
          /\ req' = [req EXCEPT ![r] = [req[r] EXCEPT !.stage = "slug", !.windowId = nextWindow]]
          /\ UNCHANGED <<bootVars, brokerVars, boundVars, lost>>
      BY <1>1 DEF NewWindow, At, TypeOK
    <2>2. nextWindow < WindowLimit
      BY <2>1
    <2>3. /\ nextWindow' = nextWindow + 1 /\ nextWindow' \in 0..WindowLimit
          /\ DOMAIN windows' \subseteq 0..nextWindow' - 1
          /\ windows' \in [DOMAIN windows' -> WindowRows]
          /\ nextWindow \in Windows /\ nextWindow \notin Used
          /\ Used \subseteq Used' /\ nextWindow \in Used'
      BY <2>1, <2>2, OpenWindowFacts
    <2>4. /\ req'[r].stage = "slug" /\ req'[r].windowId = nextWindow
          /\ req'[r].title = req[r].title
          /\ \A s \in Requests \ {r} : req'[s] = req[s]
          /\ req' \in [Requests -> RequestRecords]
      <3> DEFINE v == [req[r] EXCEPT !.stage = "slug", !.windowId = nextWindow]
      <3>1. /\ v \in RequestRecords
            /\ v.stage = "slug" /\ v.windowId = nextWindow /\ v.title = req[r].title
        BY <2>3 DEF TypeOK, RequestRecords, Stages, CreateStages
      <3>2. req' = [req EXCEPT ![r] = v]
        BY <2>1
      <3> HIDE DEF v
      <3> QED
        BY <3>1, <3>2, GotoFacts
    <2>5. TypeOK'
      BY <2>1, <2>3, <2>4 DEF TypeOK, RequestRecords, bootVars, brokerVars, boundVars, Used
    <2>6. BoundsOK'
      BY <2>1, <2>3 DEF BoundsOK, TypeOK, bootVars, brokerVars, boundVars
    <2>7. HasWindow(r)' /\ ~Named(r)'
      BY <2>4 DEF HasWindow, Named, NamedStages
    <2>8. \A s \in Requests : s # r =>
              req'[s] = req[s] /\ (HasWindow(s)' <=> HasWindow(s)) /\ (Named(s)' <=> Named(s))
      BY <2>4 DEF HasWindow, Named
    <2>9. RequestsOK'
      BY <2>1, <2>3, <2>4, <2>7, <2>8 DEF RequestsOK
    <2>10. \A s \in Requests : HasWindow(s) => req[s].windowId # nextWindow
      BY <2>3 DEF RequestsOK
    <2>11. \A id \in DOMAIN registry : registry[id].windowId # nextWindow
      BY <2>3 DEF BoundsOK
    <2>12. registry' = registry
      BY <2>1 DEF brokerVars
    <2>13. OneIdPerWindow' /\ RequestsAgree'
      BY <2>4, <2>7, <2>8, <2>10, <2>11, <2>12 DEF OneIdPerWindow, RequestsAgree
    <2> QED
      BY <2>5, <2>6, <2>9, <2>13
  <1>2. CASE ChooseSlug(r)
    <2> DEFINE id == CreatedId(req[r].title, windowCounter')
               title == Label(req[r].title, id)
    <2>1. /\ req[r].stage = "slug" /\ phase = "up" /\ windowCounter' \in Counters
          /\ req' = [req EXCEPT ![r] = [req[r] EXCEPT !.stage = "rename-new", !.id = id,
                                                       !.title = title]]
          /\ UNCHANGED <<tmuxVars, bootVars, registry, paneToWindow, boundVars, lost>>
      BY <1>2 DEF ChooseSlug, At, TypeOK, Counters
    <2>2. req[r].title \in Titles \cup {NoTitle}
      BY <2>1 DEF RequestsOK
    <2>3. id \in BaseIds
      BY <2>1, <2>2 DEF CreatedId
    <2>4. title \in Names
      BY <2>1, <2>2 DEF Label, CreatedId
    <2> HIDE DEF id, title
    <2>5. /\ req'[r].stage = "rename-new" /\ req'[r].windowId = req[r].windowId
          /\ req'[r].title = title /\ req'[r].id = id
          /\ \A s \in Requests \ {r} : req'[s] = req[s]
          /\ req' \in [Requests -> RequestRecords]
      <3> DEFINE v == [req[r] EXCEPT !.stage = "rename-new", !.id = id, !.title = title]
      <3>1. /\ v \in RequestRecords
            /\ v.stage = "rename-new" /\ v.windowId = req[r].windowId
            /\ v.title = title /\ v.id = id
        BY <2>3, <2>4 DEF TypeOK, RequestRecords, Stages, CreateStages
      <3>2. req' = [req EXCEPT ![r] = v]
        BY <2>1
      <3> HIDE DEF v
      <3> QED
        BY <3>1, <3>2, GotoFacts
    <2>6. windowCounter' \in 0..WindowLimit
      BY <2>1 DEF Counters
    <2>7. TypeOK'
      BY <2>1, <2>5, <2>6 DEF TypeOK, RequestRecords, tmuxVars, bootVars, boundVars
    <2>8. BoundsOK' /\ OneIdPerWindow'
      BY <2>1 DEF BoundsOK, OneIdPerWindow, Used, tmuxVars, bootVars, boundVars
    <2>9. HasWindow(r) /\ ~Named(r) /\ HasWindow(r)' /\ Named(r)'
      BY <2>1, <2>5 DEF HasWindow, Named, NamedStages, Stages, CreateStages
    <2>10. \A s \in Requests : s # r =>
              req'[s] = req[s] /\ (HasWindow(s)' <=> HasWindow(s)) /\ (Named(s)' <=> Named(s))
      BY <2>5 DEF HasWindow, Named
    <2>11. RequestsOK'
      BY <2>1, <2>3, <2>4, <2>5, <2>9, <2>10 DEF RequestsOK, Used, tmuxVars
    <2>12. RequestsAgree'
      BY <2>1, <2>5, <2>9, <2>10 DEF RequestsAgree
    <2> QED
      BY <2>7, <2>8, <2>11, <2>12
  \* The steps that move a request between stages, or end it.
  <1>3. ASSUME Moves(r), KeepsClaim(r),
               DOMAIN registry' \subseteq DOMAIN registry,
               \A id \in DOMAIN registry' : registry'[id] = registry[id],
               registry' \in [DOMAIN registry' -> Descriptors],
               UNCHANGED <<bootVars, windowCounter, foreign, exits>>, faults' \in Nat,
               paneToWindow' \subseteq Used,
               DOMAIN windows' \subseteq Used, windows' \in [DOMAIN windows' -> WindowRows],
               lost' \subseteq Used
        PROVE  IInv'
    <2>1. RequestsOK' /\ BoundsOK' /\ OneIdPerWindow' /\ RequestsAgree'
      BY <1>3, MoveKeepsAgreement
    <2>2. TypeOK'
      BY <1>3 DEF TypeOK, Moves, RequestRecords, bootVars, Used
    <2> QED
      BY <2>1, <2>2
  <1>4. ASSUME Moves(r), KeepsClaim(r), Named(r), SetEntry(r),
               UNCHANGED <<tmuxVars, bootVars, windowCounter, paneToWindow, boundVars>>
        PROVE  IInv'
    <2>1. /\ RequestsOK' /\ BoundsOK' /\ OneIdPerWindow' /\ RequestsAgree'
          /\ DOMAIN registry' \subseteq Ids
          /\ registry' \in [DOMAIN registry' -> Descriptors]
      BY <1>4, WriteKeepsAgreement
    <2>2. TypeOK'
      <3>1. lost' \subseteq Used
        BY <1>4, LetGoFacts DEF SetEntry, LetGoOfEntry
      <3> QED
        BY <1>4, <2>1, <3>1 DEF TypeOK, Moves, RequestRecords, Used, tmuxVars, bootVars, boundVars
    <2> QED
      BY <2>1, <2>2
  <1>5. /\ DOMAIN windows \subseteq Used /\ windows \in [DOMAIN windows -> WindowRows]
        /\ registry \in [DOMAIN registry -> Descriptors] /\ paneToWindow \subseteq Used
        /\ faults \in Nat /\ lost \subseteq Used
        /\ \A ws : LetGo(ws) => lost' \subseteq Used
    BY LetGoFacts DEF TypeOK, Used
  <1>6. \A w : CommandFails(w) \/ CommandSucceeds(w) => faults' \in Nat
    BY <1>5 DEF CommandFails, CommandSucceeds
  <1>7. ASSUME phase = "up", UNCHANGED <<phase, crashes, nextWindow>>,
               \/ Return(r)
               \/ Named(r) /\ \E st \in NamedStages \ {"rename-new", "rename-window"} : Goto(r, st)
        PROVE  Moves(r) /\ KeepsClaim(r)
    <2>1. CASE Return(r)
      BY <1>7, <2>1, ReturnFacts DEF Moves, KeepsClaim
    <2>2. ASSUME Named(r), NEW st \in NamedStages \ {"rename-new", "rename-window"}, Goto(r, st)
          PROVE  Moves(r) /\ KeepsClaim(r)
      <3>1. st \in Stages
        BY DEF NamedStages
      <3> QED
        BY <1>7, <2>2, <3>1, StageFacts DEF Moves, KeepsClaim
    <2> QED
      BY <1>7, <2>1, <2>2
  <1>8. ASSUME NEW w \in DOMAIN windows, NEW title \in Names,
               windows' = [windows EXCEPT ![w].name = title]
        PROVE  DOMAIN windows' \subseteq Used /\ windows' \in [DOMAIN windows' -> WindowRows]
    BY <1>5, <1>8 DEF WindowRows
  <1>9. {"pids", "register", "pane", "bind", "evict", "write-title", "write-snapshot"}
            \subseteq NamedStages \ {"rename-new", "rename-window"}
    BY DEF NamedStages, Stages, CreateStages, WriteStages
  <1>10. CASE NewWindowFails(r)
    <2>1. /\ phase = "up" /\ Return(r) /\ faults' \in Nat
          /\ UNCHANGED <<bootVars, brokerVars, foreign, exits, crashes>>
      BY <1>10, <1>5 DEF NewWindowFails, At
    <2>2. CASE UNCHANGED <<tmuxVars, lost>>
      <3>1. Moves(r) /\ KeepsClaim(r)
        BY <2>1, <2>2, <1>7 DEF tmuxVars, bootVars
      <3> QED
        BY <2>1, <2>2, <3>1, <1>3, <1>5 DEF tmuxVars, brokerVars
    <2>3. CASE OpenWindow /\ nextWindow < MaxWindows /\ lost' = lost \cup {nextWindow}
      <3>1. nextWindow < WindowLimit /\ nextWindow \in Nat
        BY <2>3 DEF TypeOK
      <3>2. /\ nextWindow' = nextWindow + 1 /\ nextWindow' \in 0..WindowLimit
            /\ DOMAIN windows' \subseteq 0..nextWindow' - 1
            /\ windows' \in [DOMAIN windows' -> WindowRows]
            /\ Used \subseteq Used' /\ nextWindow \in Used'
        BY <2>3, <3>1, OpenWindowFacts
      <3>3. /\ req'[r] = Idle
            /\ \A s \in Requests \ {r} : req'[s] = req[s]
            /\ req' \in [Requests -> RequestRecords]
        BY <2>1, ReturnFacts
      <3>4. \A s \in Requests : req'[s] = Idle \/ req'[s] = req[s]
        BY <3>3
      <3>5. ~HasWindow(r)' /\ ~Named(r)'
        BY <3>3 DEF HasWindow, Named, NamedStages, Idle
      <3>6. \A s \in Requests : HasWindow(s)' =>
                s # r /\ req'[s] = req[s] /\ HasWindow(s) /\ (Named(s)' <=> Named(s))
        BY <3>3, <3>5 DEF HasWindow, Named
      <3>7. TypeOK'
        BY <2>1, <2>3, <3>2, <3>3 DEF TypeOK, RequestRecords, bootVars, brokerVars, Used
      <3>8. BoundsOK'
        BY <2>1, <2>3, <3>1, <3>2 DEF BoundsOK, TypeOK, bootVars, brokerVars
      <3>9. RequestsOK'
        BY <3>2, <3>4, <3>6 DEF RequestsOK, HasWindow, Named, NamedStages, Idle
      <3>10. RequestsAgree' /\ OneIdPerWindow'
        BY <2>1, <3>6 DEF RequestsAgree, OneIdPerWindow, brokerVars
      <3> QED
        BY <3>7, <3>8, <3>9, <3>10
    <2> QED
      BY <1>10, <2>2, <2>3 DEF NewWindowFails, LetGo
  <1>11. CASE LabelWindow(r) \/ RenameWindow(r)
    <2>1. /\ req[r].stage \in {"rename-new", "rename-window"} /\ phase = "up" /\ faults' \in Nat
          /\ UNCHANGED <<nextWindow, bootVars, brokerVars, foreign, exits, crashes>>
      BY <1>11, <1>6 DEF LabelWindow, RenameWindow, At
    <2>2. Named(r) /\ req[r].title \in Names
      BY <2>1 DEF Named, NamedStages, Stages, CreateStages, WriteStages, RequestsOK
    <2>3. Return(r) \/ Goto(r, "pids") \/ Goto(r, "write-title")
      BY <1>11 DEF LabelWindow, RenameWindow
    <2>4. Moves(r) /\ KeepsClaim(r)
      BY <2>1, <2>2, <2>3, <1>7, <1>9 DEF bootVars
    <2>5. \/ UNCHANGED windows
          \/ /\ req[r].windowId \in DOMAIN windows
             /\ windows' = [windows EXCEPT ![req[r].windowId].name = req[r].title]
      BY <1>11 DEF LabelWindow, RenameWindow, CommandSucceeds, Live
    <2>6. DOMAIN windows' \subseteq Used /\ windows' \in [DOMAIN windows' -> WindowRows]
      BY <2>2, <2>5, <1>5, <1>8
    <2>7. lost' \subseteq Used
      BY <1>11, <1>5 DEF LabelWindow, RenameWindow
    <2> QED
      BY <2>1, <2>4, <2>6, <2>7, <1>3, <1>5 DEF brokerVars
  <1>12. CASE ReadNewPids(r) \/ ReadPaneId(r) \/ ReadPids(r)
    <2>1. /\ req[r].stage \in {"pids", "pane", "read-pids"} /\ phase = "up" /\ faults' \in Nat
          /\ UNCHANGED <<tmuxVars, bootVars, brokerVars, foreign, exits, crashes>>
      BY <1>12, <1>6 DEF ReadNewPids, ReadPaneId, ReadPids, At
    <2>2. Named(r)
      BY <2>1 DEF Named, NamedStages, Stages, CreateStages, WriteStages
    <2>3. Return(r) \/ Goto(r, "register") \/ Goto(r, "bind") \/ Goto(r, "write-snapshot")
      BY <1>12 DEF ReadNewPids, ReadPaneId, ReadPids
    <2>4. Moves(r) /\ KeepsClaim(r)
      BY <2>1, <2>2, <2>3, <1>7, <1>9 DEF tmuxVars, bootVars
    <2>5. lost' \subseteq Used
      BY <1>12, <1>5 DEF ReadNewPids, ReadPaneId, ReadPids
    <2> QED
      BY <2>1, <2>4, <2>5, <1>3, <1>5 DEF tmuxVars, brokerVars
  <1>13. CASE Register(r) \/ WriteTitle(r) \/ WriteSnapshot(r)
    <2>1. /\ req[r].stage \in {"register", "write-title", "write-snapshot"} /\ phase = "up"
          /\ SetEntry(r) /\ (Return(r) \/ Goto(r, "pane"))
          /\ UNCHANGED <<tmuxVars, bootVars, paneToWindow, windowCounter, boundVars>>
      BY <1>13 DEF Register, WriteTitle, WriteSnapshot, At
    <2>2. Named(r)
      BY <2>1 DEF Named, NamedStages, Stages, CreateStages, WriteStages
    <2>3. Moves(r) /\ KeepsClaim(r)
      BY <2>1, <2>2, <1>7, <1>9 DEF tmuxVars, bootVars, boundVars
    <2> QED
      BY <2>1, <2>2, <2>3, <1>4
  <1>14. CASE BindPane(r)
    <2>1. /\ req[r].stage = "bind" /\ phase = "up" /\ Return(r)
          /\ paneToWindow' = paneToWindow \cup {req[r].windowId}
          /\ UNCHANGED <<tmuxVars, bootVars, registry, windowCounter, boundVars, lost>>
      BY <1>14 DEF BindPane, At
    <2>2. req[r].windowId \in Used
      BY <2>1 DEF RequestsOK, HasWindow, Named, NamedStages, Stages
    <2>3. Moves(r) /\ KeepsClaim(r)
      BY <2>1, <1>7 DEF tmuxVars, bootVars, boundVars
    <2> QED
      BY <2>1, <2>2, <2>3, <1>3, <1>5 DEF tmuxVars, boundVars
  <1>15. CASE KillWindow(r)
    <2>1. /\ req[r].stage = "kill-window" /\ phase = "up" /\ Goto(r, "evict") /\ faults' \in Nat
          /\ UNCHANGED <<nextWindow, bootVars, brokerVars, foreign, exits, crashes>>
      BY <1>15, <1>6 DEF KillWindow, At
    <2>2. windows' = windows \/ windows' = MapDelete(windows, req[r].windowId)
      BY <1>15 DEF KillWindow
    <2>3. DOMAIN windows' \subseteq Used /\ windows' \in [DOMAIN windows' -> WindowRows]
      BY <2>2, <1>5 DEF MapDelete
    <2>4. Moves(r) /\ KeepsClaim(r)
      BY <2>1, <1>7, <1>9 DEF bootVars, Named, NamedStages, Stages
    <2>5. lost' \subseteq Used
      BY <1>15, <1>5 DEF KillWindow
    <2> QED
      BY <2>1, <2>3, <2>4, <2>5, <1>3, <1>5 DEF brokerVars
  <1>16. CASE Evict(r)
    <2>1. /\ phase = "up" /\ Return(r) /\ registry' = MapDelete(registry, req[r].id)
          /\ paneToWindow' = paneToWindow \ {req[r].windowId}
          /\ UNCHANGED <<tmuxVars, bootVars, windowCounter, boundVars>> /\ lost' \subseteq Used
      BY <1>16, <1>5 DEF Evict, At, LetGoOfEntry
    <2>2. /\ DOMAIN registry' \subseteq DOMAIN registry
          /\ \A id \in DOMAIN registry' : registry'[id] = registry[id]
          /\ registry' \in [DOMAIN registry' -> Descriptors]
      BY <2>1, <1>5 DEF MapDelete
    <2>3. Moves(r) /\ KeepsClaim(r)
      BY <2>1, <1>7 DEF tmuxVars, bootVars, boundVars
    <2> QED
      BY <2>1, <2>2, <2>3, <1>3, <1>5 DEF tmuxVars, boundVars
  <1> QED
    BY <1>1, <1>2, <1>10, <1>11, <1>12, <1>13, <1>14, <1>15, <1>16 DEF Continue

----------------------------------------------------------------------------
\* tmux and the crash of the broker.
LEMMA EnvironmentIInv ==
    ASSUME IInv, Environment
    PROVE  IInv'
  <1> USE ConstantFacts
  <1> USE DEF IInv
  <1>1. CASE Crash
    <2>1. \A r \in Requests : req'[r] = Idle
      BY <1>1 DEF Crash
    <2>2. DOMAIN registry' = {} /\ registry' \in [DOMAIN registry' -> Descriptors]
          /\ DOMAIN listing' = {} /\ listing' \in [DOMAIN listing' -> WindowRows]
      BY <1>1 DEF Crash, EmptyMap
    <2>3. Idle \in RequestRecords
      BY DEF Idle, RequestRecords, Stages
    <2>4. TypeOK'
      BY <1>1, <2>2, <2>3 DEF Crash, TypeOK, Phases, RequestRecords, tmuxVars
    <2>5. BoundsOK'
      BY <1>1, <2>1, <2>2 DEF Crash, BoundsOK, TypeOK, tmuxVars
    <2>6. RequestsOK' /\ RequestsAgree' /\ OneIdPerWindow'
      BY <2>1, <2>2 DEF RequestsOK, RequestsAgree, OneIdPerWindow, HasWindow, Named,
                        NamedStages, Idle
    <2> QED
      BY <2>4, <2>5, <2>6
  \* What tmux does by itself touches neither the registry nor the requests.
  <1>2. ASSUME UNCHANGED <<bootVars, brokerVars, req, crashes>>,
               nextWindow' \in 0..WindowLimit, Used \subseteq Used',
               nextWindow' <= nextWindow \/ nextWindow' <= MaxWindows,
               DOMAIN windows' \subseteq 0..nextWindow' - 1,
               windows' \in [DOMAIN windows' -> WindowRows],
               {foreign, exits, faults}' \subseteq Nat, lost' \subseteq Used'
        PROVE  IInv'
    <2>0. Used' = 0..nextWindow' - 1 /\ Used = 0..nextWindow - 1
      BY DEF Used
    <2>1. TypeOK'
      BY <1>2, <2>0 DEF TypeOK, bootVars, brokerVars
    <2>2. BoundsOK'
      BY <1>2 DEF BoundsOK, TypeOK, bootVars, brokerVars
    <2>3. RequestsOK'
      BY <1>2 DEF RequestsOK, HasWindow, Named
    <2>4. RequestsAgree' /\ OneIdPerWindow'
      BY <1>2 DEF RequestsAgree, OneIdPerWindow, HasWindow, Named, brokerVars
    <2> QED
      BY <2>1, <2>2, <2>3, <2>4
  <1>3. CASE ForeignWindow
    <2>1. /\ OpenWindow /\ nextWindow < MaxWindows /\ foreign' = foreign + 1
          /\ UNCHANGED <<bootVars, brokerVars, req, exits, faults, crashes>>
          /\ lost' = lost \cup {nextWindow}
      BY <1>3 DEF ForeignWindow
    <2>2. nextWindow < WindowLimit /\ nextWindow \in Nat
      BY <2>1 DEF TypeOK
    <2> QED
      BY <1>2, <2>1, <2>2, OpenWindowFacts DEF TypeOK, Used
  <1>4. ASSUME NEW w \in DOMAIN windows, ShellExits(w)
        PROVE  IInv'
    <2>1. /\ windows' = MapDelete(windows, w) /\ exits' = exits + 1
          /\ UNCHANGED <<nextWindow, bootVars, brokerVars, req, foreign, faults, crashes, lost>>
      BY <1>4 DEF ShellExits
    <2>2. DOMAIN windows' \subseteq Used /\ windows' \in [DOMAIN windows' -> WindowRows]
      BY <2>1 DEF MapDelete, TypeOK, Used
    <2> QED
      BY <1>2, <2>1, <2>2 DEF TypeOK, Used
  <1> QED
    BY <1>1, <1>3, <1>4 DEF Environment

----------------------------------------------------------------------------
LEMMA StutterIInv == IInv /\ UNCHANGED vars => IInv'
  BY DEF IInv, TypeOK, RequestsOK, BoundsOK, OneIdPerWindow, RequestsAgree, HasWindow, Named,
         Used, vars, tmuxVars, bootVars, brokerVars, boundVars

\* The inductive invariant holds in every behaviour of the broker.
LEMMA Invariance == Spec => []IInv
  <1>1. Init => IInv
    BY InitIInv
  <1>2. IInv /\ [Next]_vars => IInv'
    BY BootIInv, CallIInv, ContinueIInv, EnvironmentIInv, StutterIInv DEF Next
  <1> QED
    BY <1>1, <1>2, PTL DEF Spec

\* The broker's memory, the requests and tmux stay within their types.
THEOREM TypeCorrect == Spec => []TypeOK
  <1>1. IInv => TypeOK
    BY DEF IInv
  <1> QED
    BY <1>1, Invariance, PTL

\* Two terminalIds never name the same window, for any number of concurrent
\* requests and any sequence of restarts, faults and closing shells: output is
\* never routed to another terminal's subscribers.
THEOREM WindowHasOneId == Spec => []OneIdPerWindow
  <1>1. IInv => OneIdPerWindow
    BY DEF IInv
  <1> QED
    BY <1>1, Invariance, PTL
----------------------------------------------------------------------------
(* Routing: without faults and windows opened by hand, a window that the   *)
(* registry names, or that a request may still write to it, has its pane   *)
(* bound or a request about to bind it.                                    *)

Binding(w) == \E r \in Requests : req[r].windowId = w /\ req[r].stage \in {"pane", "bind"}
Routed(w) == Live(w) => w \in paneToWindow \/ Binding(w)

\* Boot binds every window before it registers any; destroy drops the panes
\* of a window only when that is gone.
Routes ==
    /\ phase \in {"down", "sync"} => DOMAIN registry = {}
    /\ phase \in {"list", "adopt"} => DOMAIN windows \subseteq paneToWindow
    /\ \A id \in DOMAIN registry : Routed(registry[id].windowId)
    /\ \A r \in Requests : req[r].stage \in WriteStages => Routed(req[r].windowId)
    /\ \A r \in Requests : req[r].stage = "evict" => ~Live(req[r].windowId)

Untroubled == faults = 0 /\ foreign = 0

RouteIInv == Untroubled => Routes

LEMMA RouteInit == Init => RouteIInv
  <1> SUFFICES ASSUME Init PROVE Routes
    BY DEF RouteIInv
  <1>1. DOMAIN registry = {} /\ phase = "down"
    BY DEF Init, EmptyMap
  <1>2. \A r \in Requests : req[r].stage = "idle"
    BY DEF Init, Idle
  <1> QED
    BY <1>1, <1>2 DEF Routes, WriteStages

\* A window of an entry or a request is not the next one tmux opens.
LEMMA HeldWindows ==
    ASSUME IInv
    PROVE  /\ \A id \in DOMAIN registry : registry[id].windowId \in Used
           /\ \A r \in Requests : HasWindow(r) => req[r].windowId \in Used
           /\ DOMAIN windows \subseteq Used /\ nextWindow \in Nat /\ nextWindow \notin Used
           /\ paneToWindow \subseteq Used
  BY DEF IInv, BoundsOK, RequestsOK, TypeOK, Used

LEMMA WritersHaveWindow ==
    ASSUME NEW r \in Requests,
           req[r].stage \in WriteStages \cup {"register", "pane", "bind", "evict", "kill-window"}
    PROVE  HasWindow(r) /\ Named(r)
  BY DEF WriteStages, CreateStages, Stages, NamedStages, HasWindow, Named

\* A step of one request, by what it does to the windows that were open: none
\* comes back, panes are dropped of dead ones only, a pane that was about to
\* be bound is bound; and what it writes or goes on to write is routed.
LEMMA RequestRoutes ==
    ASSUME IInv, Routes, NEW r \in Requests, phase = "up", phase' = "up",
           \A s \in Requests \ {r} : req'[s] = req[s],
           \A w \in Used : Live(w)' => Live(w) /\ (w \in paneToWindow => w \in paneToWindow'),
           \A w \in Used :
               req[r].windowId = w /\ req[r].stage \in {"pane", "bind"} => Routed(w)',
           \A id \in DOMAIN registry' : \E w \in Used :
               registry'[id].windowId = w /\ (Routed(w) \/ Routed(w)'),
           req'[r].stage \in WriteStages =>
               \E w \in Used : req'[r].windowId = w /\ Routed(w),
           req'[r].stage = "evict" => \E w \in Used : req'[r].windowId = w /\ ~Live(w)'
    PROVE  Routes'
  <1>1. ASSUME NEW w \in Used, Routed(w) PROVE Routed(w)'
    <2> SUFFICES ASSUME Live(w)' PROVE w \in paneToWindow' \/ Binding(w)'
      BY DEF Routed
    <2>1. CASE w \in paneToWindow
      BY <2>1
    <2>2. CASE Binding(w)
      <3>1. PICK s \in Requests : req[s].windowId = w /\ req[s].stage \in {"pane", "bind"}
        BY <2>2 DEF Binding
      <3>2. CASE s = r
        BY <3>1, <3>2 DEF Routed
      <3>3. CASE s # r
        BY <3>1, <3>3 DEF Binding
      <3> QED
        BY <3>2, <3>3
    <2> QED
      BY <1>1, <2>1, <2>2 DEF Routed
  <1>2. \A id \in DOMAIN registry' : Routed(registry[id].windowId)'
    <2> TAKE id \in DOMAIN registry'
    <2>1. PICK w \in Used : registry'[id].windowId = w /\ (Routed(w) \/ Routed(w)')
      OBVIOUS
    <2>2. Routed(w)'
      BY <2>1, <1>1
    <2> QED
      BY <2>1, <2>2 DEF Routed, Binding, Live
  <1>3. ASSUME NEW s \in Requests, req'[s].stage \in WriteStages
        PROVE  Routed(req[s].windowId)'
    <2>1. PICK w \in Used : req'[s].windowId = w /\ Routed(w)
      <3>1. CASE s = r
        BY <3>1, <1>3
      <3>2. CASE s # r
        <4>1. req'[s] = req[s]
          BY <3>2
        <4>2. req[s].stage \in WriteStages
          BY <4>1, <1>3 DEF WriteStages
        <4> QED
          BY <4>1, <4>2, HeldWindows, WritersHaveWindow DEF Routes
      <3> QED
        BY <3>1, <3>2
    <2>2. Routed(w)'
      BY <2>1, <1>1
    <2> QED
      BY <2>1, <2>2 DEF Routed, Binding, Live
  <1>4. ASSUME NEW s \in Requests, req'[s].stage = "evict"
        PROVE  ~Live(req[s].windowId)'
    <2>1. PICK w \in Used : req'[s].windowId = w /\ ~Live(w)'
      <3>1. CASE s = r
        BY <3>1, <1>4
      <3>2. CASE s # r
        <4>1. req'[s] = req[s]
          BY <3>2
        <4> QED
          BY <4>1, <1>4, HeldWindows, WritersHaveWindow DEF Routes
      <3> QED
        BY <3>1, <3>2
    <2> QED
      BY <2>1 DEF Live
  <1> QED
    BY <1>2, <1>3, <1>4 DEF Routes, WriteStages

LEMMA BootRoutes ==
    ASSUME IInv, RouteIInv, Untroubled', Boot
    PROVE  Routes'
  <1> USE DEF Routes
  <1>0. faults = 0 /\ foreign = 0 /\ Routes
    <2>1. faults \in Nat
      BY DEF IInv, TypeOK
    <2>2. foreign' = foreign
      BY DEF Boot, EnsureSession, SyncPaneMap, ListWindows, FinishBoot, AdoptWindow, boundVars
    <2>3. faults' = faults \/ faults' = faults + 1
      <3>1. ASSUME EnsureSession \/ SyncPaneMap \/ ListWindows \/ FinishBoot
            PROVE  faults' = faults \/ faults' = faults + 1
        BY <3>1 DEF EnsureSession, SyncPaneMap, ListWindows, FinishBoot, boundVars
      <3>2. ASSUME NEW w \in Windows, AdoptWindow(w)
            PROVE  faults' = faults \/ faults' = faults + 1
        BY <3>2 DEF AdoptWindow, CommandSucceeds, CommandFails
      <3> QED
        BY <3>1, <3>2 DEF Boot
    <2> QED
      BY <2>1, <2>2, <2>3 DEF RouteIInv, Untroubled
  <1>a. \A r \in Requests : req'[r] = Idle
    <2>1. phase # "up" /\ req' = req
      BY DEF Boot, EnsureSession, SyncPaneMap, ListWindows, FinishBoot, AdoptWindow
    <2> QED
      BY <2>1 DEF IInv, BoundsOK
  <1>b. \A r \in Requests : req'[r].stage = "idle"
    BY <1>a DEF Idle
  <1>c. \A r \in Requests : req'[r].stage \notin WriteStages /\ req'[r].stage # "evict"
    BY <1>b DEF WriteStages
  <1>1. CASE EnsureSession
    <2>1. phase' = "sync" /\ registry' = registry /\ DOMAIN registry = {}
      BY <1>0, <1>1 DEF EnsureSession, brokerVars
    <2> QED
      BY <2>1, <1>c
  <1>2. CASE SyncPaneMap
    <2>1. /\ phase' = "list" /\ registry' = registry /\ windows' = windows
          /\ DOMAIN registry = {} /\ DOMAIN windows \subseteq paneToWindow'
      BY <1>0, <1>2 DEF SyncPaneMap, tmuxVars, Untroubled
    <2> QED
      BY <2>1, <1>c
  <1>3. CASE ListWindows
    <2>1. /\ phase = "list" /\ DOMAIN windows \subseteq paneToWindow
          /\ UNCHANGED <<windows, paneToWindow>>
      BY <1>0, <1>3 DEF ListWindows, tmuxVars
    <2>2. \A w : Routed(w)'
      BY <2>1 DEF Routed, Live
    <2>3. phase' \in {"adopt", "up"}
      BY <1>3 DEF ListWindows
    <2> QED
      BY <2>1, <2>2, <2>3, <1>c
  <1>4. CASE FinishBoot
    <2>1. /\ phase = "adopt" /\ phase' = "up" /\ DOMAIN windows \subseteq paneToWindow
          /\ UNCHANGED <<windows, paneToWindow, registry>>
      BY <1>0, <1>4 DEF FinishBoot, tmuxVars, brokerVars
    <2>2. \A w : Routed(w)'
      BY <2>1 DEF Routed, Live
    <2> QED
      BY <2>1, <2>2, <1>c
  <1>5. ASSUME NEW w \in Windows, AdoptWindow(w)
        PROVE  Routes'
    <2>1. /\ phase = "adopt" /\ phase' = "adopt" /\ DOMAIN windows \subseteq paneToWindow
          /\ UNCHANGED <<windows, paneToWindow>>
      BY <1>0, <1>5 DEF AdoptWindow, tmuxVars
    <2>2. \A v : Routed(v)'
      BY <2>1 DEF Routed, Live
    <2> QED
      BY <2>1, <2>2, <1>c
  <1> QED
    BY <1>1, <1>2, <1>3, <1>4, <1>5 DEF Boot

\* A request captures the window of an entry, which is routed.
LEMMA CallRoutes ==
    ASSUME IInv, Routes, NEW r \in Requests, Call(r)
    PROVE  Routes'
  <1>1. /\ phase = "up" /\ UNCHANGED <<tmuxVars, bootVars, brokerVars, boundVars>>
        /\ req[r].stage = "idle"
    BY DEF Call, CreateBegin, DestroyBegin, RenameBegin, GetBegin, Idling
  <1>2. PICK v : /\ req' = [req EXCEPT ![r] = v]
                 /\ v.stage # "evict"
                 /\ v.stage \in WriteStages =>
                       \E id \in DOMAIN registry : v.windowId = registry[id].windowId
    <2>1. ASSUME NEW title, CreateBegin(r, title)
          PROVE  \E v : /\ req' = [req EXCEPT ![r] = v]
                        /\ v.stage \notin WriteStages \cup {"evict"}
      <3> DEFINE v == [Idle EXCEPT !.stage = "new-window", !.title = title]
      <3>1. req' = [req EXCEPT ![r] = v] /\ v.stage = "new-window"
        BY <2>1 DEF CreateBegin, Idle
      <3> HIDE DEF v
      <3> QED
        BY <3>1 DEF WriteStages
    <2>2. ASSUME NEW id \in DOMAIN registry, NEW stage, stage # "evict",
                 req' = [req EXCEPT ![r] = Captured(id, stage)]
          PROVE  \E v : /\ req' = [req EXCEPT ![r] = v] /\ v.stage # "evict"
                        /\ v.windowId = registry[id].windowId
      <3>1. Captured(id, stage).stage = stage
            /\ Captured(id, stage).windowId = registry[id].windowId
        BY DEF Captured
      <3> QED
        BY <2>2, <3>1
    <2>3. ASSUME NEW id \in DOMAIN registry, NEW title, RenameBegin(r, id, title)
          PROVE  \E v : /\ req' = [req EXCEPT ![r] = v] /\ v.stage # "evict"
                        /\ v.windowId = registry[id].windowId
      <3> DEFINE v == [Captured(id, "rename-window") EXCEPT !.title = title]
      <3>1. /\ req' = [req EXCEPT ![r] = v] /\ v.stage = "rename-window"
            /\ v.windowId = registry[id].windowId
        BY <2>3 DEF RenameBegin, Captured
      <3> HIDE DEF v
      <3> QED
        BY <3>1
    <2>4. ASSUME NEW id \in DOMAIN registry, DestroyBegin(r, id)
          PROVE  \E v : /\ req' = [req EXCEPT ![r] = v] /\ v.stage # "evict"
                        /\ v.windowId = registry[id].windowId
      BY <2>2, <2>4 DEF DestroyBegin
    <2>5. ASSUME NEW id \in DOMAIN registry, GetBegin(r, id)
          PROVE  \E v : /\ req' = [req EXCEPT ![r] = v] /\ v.stage # "evict"
                        /\ v.windowId = registry[id].windowId
      BY <2>2, <2>5 DEF GetBegin
    <2> QED
      BY <2>1, <2>3, <2>4, <2>5 DEF Call
  <1>3. req'[r] = v /\ \A s \in Requests \ {r} : req'[s] = req[s]
    BY <1>2 DEF IInv, TypeOK
  <1>4. /\ windows' = windows /\ paneToWindow' = paneToWindow /\ registry' = registry
        /\ phase' = "up"
    BY <1>1 DEF tmuxVars, bootVars, brokerVars
  <1>5. \A w \in Used : Live(w)' => Live(w) /\ (w \in paneToWindow => w \in paneToWindow')
    BY <1>4 DEF Live
  <1>6. \A id \in DOMAIN registry' : \E w \in Used :
            registry'[id].windowId = w /\ (Routed(w) \/ Routed(w)')
    BY <1>4, HeldWindows DEF Routes
  <1>7. req'[r].stage \in WriteStages => \E w \in Used : req'[r].windowId = w /\ Routed(w)
    BY <1>2, <1>3, HeldWindows DEF Routes
  <1> QED
    BY <1>1, <1>2, <1>3, <1>4, <1>5, <1>6, <1>7, RequestRoutes

LEMMA ContinueRoutes ==
    ASSUME IInv, RouteIInv, Untroubled', NEW r \in Requests, Continue(r)
    PROVE  Routes'
  <1>0. /\ phase = "up" /\ phase' = "up" /\ faults = 0 /\ faults' = 0 /\ foreign = 0
    <2>1. faults \in Nat
      BY DEF IInv, TypeOK
    <2>2. faults' = faults \/ faults' = faults + 1
      BY DEF Continue, NewWindow, NewWindowFails, ChooseSlug, LabelWindow, ReadNewPids,
             Register, ReadPaneId, BindPane, KillWindow, Evict, RenameWindow, WriteTitle,
             ReadPids, WriteSnapshot, CommandSucceeds, CommandFails, boundVars
    <2>3. phase = "up" /\ phase' = phase /\ foreign' = foreign
      BY DEF Continue, NewWindow, NewWindowFails, ChooseSlug, LabelWindow, ReadNewPids,
             Register, ReadPaneId, BindPane, KillWindow, Evict, RenameWindow, WriteTitle,
             ReadPids, WriteSnapshot, At, bootVars, boundVars
    <2> QED
      BY <2>1, <2>2, <2>3 DEF Untroubled
  <1>1. Routes
    BY <1>0 DEF RouteIInv, Untroubled
  <1>2. req \in [Requests -> RequestRecords]
    BY DEF IInv, TypeOK, RequestRecords
  <1>3. \A w : CommandFails(w) => ~Live(w)
    BY <1>0 DEF CommandFails
  <1>4. {"slug", "rename-new", "pids", "register", "pane", "bind", "idle"} \cap WriteStages = {}
        /\ "evict" \notin WriteStages
    BY DEF WriteStages
  <1>5. \A id \in DOMAIN registry : \E w \in Used : registry[id].windowId = w /\ Routed(w)
    BY <1>1, HeldWindows DEF Routes
  <1>6. Idle.stage = "idle"
    BY DEF Idle
  \* The windows and panes that were there stay as they were.
  <1>7. ASSUME \A w \in Used : Live(w)' = Live(w), UNCHANGED paneToWindow,
               \A s \in Requests \ {r} : req'[s] = req[s],
               req[r].stage \in {"pane", "bind"} =>
                   \/ ~Live(req[r].windowId)
                   \/ req'[r].stage = "bind" /\ req'[r].windowId = req[r].windowId,
               \/ UNCHANGED registry
               \/ /\ SetEntry(r)
                  /\ \/ req[r].stage \in WriteStages
                     \/ /\ req[r].stage = "register"
                        /\ req'[r].stage = "pane" /\ req'[r].windowId = req[r].windowId,
               req'[r].stage \in WriteStages =>
                   req[r].stage \in WriteStages /\ req'[r].windowId = req[r].windowId,
               req'[r].stage # "evict"
        PROVE  Routes'
    <2>1. \A w \in Used : Live(w)' => Live(w) /\ (w \in paneToWindow => w \in paneToWindow')
      BY <1>7
    <2>2. ASSUME NEW w \in Used, req[r].windowId = w, req[r].stage \in {"pane", "bind"}
          PROVE  Routed(w)'
      BY <1>7, <2>2 DEF Routed, Binding
    <2>3. req[r].stage \in WriteStages => req[r].windowId \in Used /\ Routed(req[r].windowId)
      BY <1>1, HeldWindows, WritersHaveWindow DEF Routes
    <2>4. ASSUME NEW id \in DOMAIN registry'
          PROVE  \E w \in Used : registry'[id].windowId = w /\ (Routed(w) \/ Routed(w)')
      <3>1. CASE UNCHANGED registry
        BY <3>1, <1>5
      <3>2. CASE SetEntry(r)
        <4>1. \/ id \in DOMAIN registry /\ registry'[id] = registry[id]
              \/ registry'[id].windowId = req[r].windowId
          BY <3>2 DEF SetEntry, MapSet
        <4>2. CASE id \in DOMAIN registry /\ registry'[id] = registry[id]
          BY <4>2, <1>5
        <4>3. CASE registry'[id].windowId = req[r].windowId
          <5>1. CASE req[r].stage \in WriteStages
            BY <5>1, <4>3, <2>3
          <5>2. CASE /\ req[r].stage = "register"
                     /\ req'[r].stage = "pane" /\ req'[r].windowId = req[r].windowId
            <6>1. PICK w \in Used : req[r].windowId = w
              BY <5>2, HeldWindows, WritersHaveWindow
            <6>2. Binding(w)'
              BY <5>2, <6>1 DEF Binding
            <6> QED
              BY <4>3, <6>1, <6>2 DEF Routed
          <5>3. CASE UNCHANGED registry
            BY <5>3, <1>5
          <5> QED
            BY <5>1, <5>2, <5>3, <1>7
        <4> QED
          BY <4>1, <4>2, <4>3
      <3> QED
        BY <3>1, <3>2, <1>7
    <2>5. req'[r].stage \in WriteStages => \E w \in Used : req'[r].windowId = w /\ Routed(w)
      BY <2>3, <1>7
    <2> QED
      BY <1>0, <1>1, <1>7, <2>1, <2>2, <2>4, <2>5, RequestRoutes
  <1>8. ASSUME NEW st, Goto(r, st)
        PROVE  /\ req'[r].stage = st /\ req'[r].windowId = req[r].windowId
               /\ \A s \in Requests \ {r} : req'[s] = req[s]
    BY <1>2, <1>8 DEF Goto, RequestRecords
  <1>9. ASSUME Return(r)
        PROVE  req'[r].stage = "idle" /\ \A s \in Requests \ {r} : req'[s] = req[s]
    BY <1>2, <1>6, <1>9 DEF Return
  <1>10. CASE NewWindow(r)
    <2>1. /\ OpenWindow /\ req[r].stage = "new-window"
          /\ req' = [req EXCEPT ![r] = [req[r] EXCEPT !.stage = "slug", !.windowId = nextWindow]]
          /\ UNCHANGED <<registry, paneToWindow>>
      BY <1>10 DEF NewWindow, At, brokerVars
    <2>2. \A w \in Used : Live(w)' = Live(w)
      <3>1. DOMAIN windows' = DOMAIN windows \cup {nextWindow}
        BY <2>1 DEF OpenWindow, MapSet
      <3> QED
        BY <3>1, HeldWindows DEF Live
    <2>3. req'[r].stage = "slug" /\ \A s \in Requests \ {r} : req'[s] = req[s]
      BY <2>1, <1>2 DEF RequestRecords
    <2> QED
      BY <2>1, <2>2, <2>3, <1>4, <1>7
  <1>11. CASE NewWindowFails(r)
    <2>1. UNCHANGED windows \/ OpenWindow
      BY <1>11 DEF NewWindowFails, tmuxVars
    <2>2. \A w \in Used : Live(w)' = Live(w)
      <3>1. DOMAIN windows' = DOMAIN windows \/ DOMAIN windows' = DOMAIN windows \cup {nextWindow}
        BY <2>1 DEF OpenWindow, MapSet
      <3> QED
        BY <3>1, HeldWindows DEF Live
    <2> QED
      BY <1>11, <2>2, <1>4, <1>7, <1>9 DEF NewWindowFails, At, brokerVars
  <1>12. CASE ChooseSlug(r)
    <2>1. /\ req[r].stage = "slug" /\ UNCHANGED <<windows, registry, paneToWindow>>
          /\ \E id, title : req' = [req EXCEPT ![r] =
                 [req[r] EXCEPT !.stage = "rename-new", !.id = id, !.title = title]]
      BY <1>12 DEF ChooseSlug, At, tmuxVars
    <2>2. req'[r].stage = "rename-new" /\ \A s \in Requests \ {r} : req'[s] = req[s]
      BY <2>1, <1>2 DEF RequestRecords
    <2> QED
      BY <2>1, <2>2, <1>4, <1>7 DEF Live
  <1>13. CASE LabelWindow(r) \/ RenameWindow(r)
    <2>1. /\ req[r].stage \in {"rename-new", "rename-window"}
          /\ UNCHANGED <<registry, paneToWindow>>
          /\ \/ Return(r) \/ Goto(r, "pids")
             \/ Goto(r, "write-title") /\ req[r].stage = "rename-window"
      BY <1>13 DEF LabelWindow, RenameWindow, At, brokerVars
    <2>2. DOMAIN windows' = DOMAIN windows
      BY <1>13 DEF LabelWindow, RenameWindow
    <2>3. "rename-window" \in WriteStages
      BY DEF WriteStages
    <2>4. \A w \in Used : Live(w)' = Live(w)
      BY <2>2 DEF Live
    <2>5. CASE Return(r)
      BY <2>1, <2>4, <2>5, <1>4, <1>7, <1>9
    <2>6. CASE Goto(r, "pids")
      BY <2>1, <2>4, <2>6, <1>4, <1>7, <1>8
    <2>7. CASE Goto(r, "write-title") /\ req[r].stage = "rename-window"
      BY <2>1, <2>3, <2>4, <2>7, <1>7, <1>8
    <2> QED
      BY <2>1, <2>5, <2>6, <2>7
  <1>14. CASE ReadNewPids(r) \/ ReadPids(r)
    <2>1. /\ UNCHANGED <<windows, registry, paneToWindow>>
          /\ \/ Return(r) /\ req[r].stage \in {"pids", "read-pids"}
             \/ Goto(r, "register") /\ req[r].stage = "pids"
             \/ Goto(r, "write-snapshot") /\ req[r].stage = "read-pids"
      BY <1>14 DEF ReadNewPids, ReadPids, At, tmuxVars, brokerVars
    <2>3. "read-pids" \in WriteStages
      BY DEF WriteStages
    <2> QED
      BY <2>1, <2>3, <1>4, <1>7, <1>8, <1>9 DEF Live
  <1>15. CASE ReadPaneId(r)
    <2>1. /\ UNCHANGED <<windows, registry, paneToWindow>> /\ req[r].stage = "pane"
          /\ \/ Return(r) /\ ~Live(req[r].windowId)
             \/ Goto(r, "bind")
      BY <1>3, <1>15 DEF ReadPaneId, At, tmuxVars, brokerVars
    <2>2. \A w \in Used : Live(w)' = Live(w)
      BY <2>1 DEF Live
    <2>3. CASE Return(r) /\ ~Live(req[r].windowId)
      BY <2>1, <2>2, <2>3, <1>4, <1>7, <1>9
    <2>4. CASE Goto(r, "bind")
      BY <2>1, <2>2, <2>4, <1>4, <1>7, <1>8
    <2> QED
      BY <2>1, <2>3, <2>4
  <1>16. CASE Register(r) \/ WriteTitle(r) \/ WriteSnapshot(r)
    <2>1. /\ UNCHANGED <<windows, paneToWindow>> /\ SetEntry(r)
          /\ \/ Goto(r, "pane") /\ req[r].stage = "register"
             \/ Return(r) /\ req[r].stage \in {"write-title", "write-snapshot"}
      BY <1>16 DEF Register, WriteTitle, WriteSnapshot, At, tmuxVars
    <2>2. {"write-title", "write-snapshot"} \subseteq WriteStages
      BY DEF WriteStages
    <2> QED
      BY <2>1, <2>2, <1>4, <1>7, <1>8, <1>9 DEF Live
  <1>17. CASE BindPane(r)
    <2>1. /\ UNCHANGED <<windows, registry>> /\ Return(r) /\ req[r].stage = "bind"
          /\ paneToWindow' = paneToWindow \cup {req[r].windowId}
      BY <1>17 DEF BindPane, At, tmuxVars
    <2>2. \A w \in Used : Live(w)' => Live(w) /\ (w \in paneToWindow => w \in paneToWindow')
      BY <2>1 DEF Live
    <2>3. ASSUME NEW w \in Used, req[r].windowId = w PROVE Routed(w)'
      BY <2>1, <2>3 DEF Routed
    <2> QED
      BY <2>1, <2>2, <2>3, <1>0, <1>1, <1>4, <1>5, <1>9, RequestRoutes
  <1>18. CASE KillWindow(r)
    <2>1. /\ Goto(r, "evict") /\ req[r].stage = "kill-window"
          /\ UNCHANGED <<registry, paneToWindow>>
          /\ DOMAIN windows' = DOMAIN windows \ {req[r].windowId}
      <3>1. \/ windows' = MapDelete(windows, req[r].windowId)
            \/ windows' = windows /\ req[r].windowId \notin DOMAIN windows
        BY <1>3, <1>18 DEF KillWindow, Live
      <3> QED
        BY <1>18, <3>1 DEF KillWindow, At, brokerVars, MapDelete
    <2>2. \A w \in Used : Live(w)' => Live(w) /\ (w \in paneToWindow => w \in paneToWindow')
      BY <2>1 DEF Live
    <2>3. \E w \in Used : req'[r].windowId = w /\ ~Live(w)'
      <3>1. PICK w \in Used : req[r].windowId = w
        BY <2>1, HeldWindows, WritersHaveWindow
      <3> QED
        BY <2>1, <3>1, <1>8 DEF Live
    <2> QED
      BY <2>1, <2>2, <2>3, <1>0, <1>1, <1>4, <1>5, <1>8, RequestRoutes
  <1>19. CASE Evict(r)
    <2>1. /\ Return(r) /\ req[r].stage = "evict" /\ windows' = windows
          /\ paneToWindow' = paneToWindow \ {req[r].windowId}
          /\ \A id \in DOMAIN registry' : id \in DOMAIN registry /\ registry'[id] = registry[id]
      BY <1>19 DEF Evict, At, tmuxVars, MapDelete
    <2>2. ~Live(req[r].windowId)
      BY <2>1, <1>1 DEF Routes
    <2>3. \A w \in Used : Live(w)' => Live(w) /\ (w \in paneToWindow => w \in paneToWindow')
      BY <2>1, <2>2 DEF Live
    <2>4. \A id \in DOMAIN registry' : \E w \in Used : registry'[id].windowId = w /\ Routed(w)
      BY <2>1, <1>5
    <2> QED
      BY <2>1, <2>3, <2>4, <1>0, <1>1, <1>4, <1>9, RequestRoutes
  <1> QED
    BY <1>10, <1>11, <1>12, <1>13, <1>14, <1>15, <1>16, <1>17, <1>18, <1>19 DEF Continue

LEMMA EnvironmentRoutes ==
    ASSUME IInv, RouteIInv, Untroubled', Environment
    PROVE  Routes'
  <1>1. CASE Crash
    <2>1. DOMAIN registry' = {} /\ phase' = "down"
      BY <1>1 DEF Crash, EmptyMap
    <2>2. \A r \in Requests : req'[r].stage = "idle"
      BY <1>1 DEF Crash, Idle
    <2> QED
      BY <2>1, <2>2 DEF Routes, WriteStages
  <1>2. CASE ForeignWindow
    <2>1. foreign' = foreign + 1 /\ foreign \in Nat
      BY <1>2 DEF ForeignWindow, IInv, TypeOK
    <2> QED
      BY <2>1 DEF Untroubled
  <1>3. ASSUME NEW w \in DOMAIN windows, ShellExits(w)
        PROVE  Routes'
    <2>1. /\ DOMAIN windows' = DOMAIN windows \ {w}
          /\ UNCHANGED <<phase, registry, paneToWindow, req, foreign, faults>>
      BY <1>3 DEF ShellExits, MapDelete, bootVars, brokerVars
    <2>2. Routes
      BY <2>1 DEF RouteIInv, Untroubled
    <2>3. \A v : Routed(v) => Routed(v)'
      BY <2>1 DEF Routed, Binding, Live
    <2> QED
      BY <2>1, <2>2, <2>3 DEF Routes, Live, WriteStages, Routed, Binding
  <1> QED
    BY <1>1, <1>2, <1>3 DEF Environment

LEMMA RouteInvariance == Spec => []RouteIInv
  <1>1. IInv /\ RouteIInv /\ [Next]_vars => RouteIInv'
    <2> SUFFICES ASSUME IInv, RouteIInv, [Next]_vars, Untroubled' PROVE Routes'
      BY DEF RouteIInv
    <2>1. ASSUME NEW r \in Requests, Call(r) PROVE Routes'
      <3>1. Routes
        BY <2>1 DEF RouteIInv, Untroubled, Call, CreateBegin, DestroyBegin, RenameBegin,
                    GetBegin, boundVars
      <3> QED
        BY <2>1, <3>1, CallRoutes
    <2>2. CASE UNCHANGED vars
      <3>1. UNCHANGED <<windows, phase, registry, paneToWindow, req, faults, foreign>>
        BY <2>2 DEF vars, tmuxVars, bootVars, brokerVars, boundVars
      <3>2. Routes
        BY <3>1 DEF RouteIInv, Untroubled
      <3> QED
        BY <3>1, <3>2 DEF Routes, Routed, Binding, Live, WriteStages
    <2> QED
      BY <2>1, <2>2, BootRoutes, ContinueRoutes, EnvironmentRoutes DEF Next
  <1> QED
    BY <1>1, RouteInit, Invariance, PTL DEF Spec

\* Output of a registered terminal that lives has its way to the subscribers:
\* its pane is bound, or the create that binds it runs, whatever requests,
\* restarts and closing shells interleave.
THEOREM EntriesRouted == Spec => []LiveEntriesRouted
  <1>1. RouteIInv => LiveEntriesRouted
    BY DEF RouteIInv, Routes, Untroubled, LiveEntriesRouted, Routed, Binding
  <1> QED
    BY <1>1, RouteInvariance, PTL
----------------------------------------------------------------------------
(* The cap.  The invariant counts the ids a request may still write to the *)
(* registry, whether the entry is there or not, and the requests that have *)
(* passed the cap and chosen no id yet.                                    *)

WritingStages == {"rename-new", "pids", "register"} \cup WriteStages
Writers == {r \in Requests : req[r].stage \in WritingStages}
Slots == DOMAIN registry \cup {req[r].id : r \in Writers}
Unnamed == {r \in Requests : req[r].stage \in {"new-window", "slug"}}
Ceiling == IF Cardinality(adopted) < MaxTerminals + Cardinality(Requests)
           THEN MaxTerminals - 1 + Cardinality(Requests) ELSE Cardinality(adopted)

SizeIInv ==
    /\ IsFiniteSet(DOMAIN registry) /\ IsFiniteSet(adopted)
    /\ phase # "up" => DOMAIN registry \subseteq adopted
    /\ phase = "up" => Cardinality(Slots) + Cardinality(Unnamed) <= Ceiling

\* The ceiling is the larger of two numbers, and does not move while adopted stays.
LEMMA CeilingFacts ==
    ASSUME IsFiniteSet(adopted)
    PROVE  /\ Ceiling \in Int /\ Cardinality(adopted) \in Nat /\ Cardinality(adopted) <= Ceiling
           /\ Cardinality(Requests) \in Nat
           /\ MaxTerminals - 1 + Cardinality(Requests) <= Ceiling
           /\ \/ Ceiling <= Cardinality(adopted)
              \/ Ceiling < MaxTerminals + Cardinality(Requests)
  <1>1. Cardinality(adopted) \in Nat /\ Cardinality(Requests) \in Nat
    BY ConstantsAssumption, FS_CardinalityType
  <1> QED
    BY <1>1, ConstantsAssumption DEF Ceiling

\* The values of a function over a finite set are no more than its arguments.
LEMMA ValuesFinite ==
    ASSUME NEW W, IsFiniteSet(W), NEW f, DOMAIN f = W, f = [x \in W |-> f[x]]
    PROVE  IsFiniteSet({f[x] : x \in W}) /\ Cardinality({f[x] : x \in W}) <= Cardinality(W)
  <1> DEFINE T == {f[x] : x \in W}
  <1>1. f \in Surjection(W, T)
    BY DEF Surjection
  <1> HIDE DEF T
  <1>2. IsFiniteSet(T) /\ Cardinality(T) <= Cardinality(W)
    BY <1>1, FS_Surjection
  <1> QED
    BY <1>2 DEF T

\* How many slots there can be, at most.
LEMMA SlotCount ==
    ASSUME NEW D, IsFiniteSet(D), NEW W \in SUBSET Requests, NEW U \in SUBSET Requests,
           W \cap U = {}, NEW f, DOMAIN f = W, f = [x \in W |-> f[x]]
    PROVE  /\ IsFiniteSet(D \cup {f[x] : x \in W}) /\ IsFiniteSet(U)
           /\ Cardinality(D \cup {f[x] : x \in W}) + Cardinality(U)
                  <= Cardinality(D) + Cardinality(Requests)
  <1> DEFINE T == {f[x] : x \in W}
  <1>1. IsFiniteSet(Requests)
    BY ConstantsAssumption
  <1>2. IsFiniteSet(W) /\ IsFiniteSet(U) /\ IsFiniteSet(W \cup U)
        /\ Cardinality(W \cup U) <= Cardinality(Requests)
    <2>1. W \cup U \in SUBSET Requests
      OBVIOUS
    <2> QED
      BY <2>1, <1>1, FS_Subset
  <1>3. IsFiniteSet(T) /\ Cardinality(T) <= Cardinality(W)
    BY <1>2, ValuesFinite
  <1> HIDE DEF T
  <1>4. /\ IsFiniteSet(D \cup T)
        /\ Cardinality(D \cup T) = Cardinality(D) + Cardinality(T) - Cardinality(D \cap T)
        /\ IsFiniteSet(D \cap T)
    BY <1>3, FS_Union, FS_Intersection
  <1>5. Cardinality(W \cup U) = Cardinality(W) + Cardinality(U) - Cardinality(W \cap U)
        /\ Cardinality(W \cap U) = 0
    BY <1>2, FS_Union, FS_EmptySet
  <1>6. /\ Cardinality(D) \in Nat /\ Cardinality(T) \in Nat /\ Cardinality(D \cap T) \in Nat
        /\ Cardinality(W) \in Nat /\ Cardinality(U) \in Nat /\ Cardinality(Requests) \in Nat
        /\ Cardinality(D \cup T) \in Nat
    BY <1>1, <1>2, <1>3, <1>4, FS_CardinalityType
  <1>7. Cardinality(D \cup T) + Cardinality(U) <= Cardinality(D) + Cardinality(Requests)
    BY <1>2, <1>3, <1>4, <1>5, <1>6
  <1> QED
    BY <1>2, <1>4, <1>7 DEF T

LEMMA SlotsFinite ==
    ASSUME IsFiniteSet(DOMAIN registry)
    PROVE  /\ IsFiniteSet(Slots) /\ IsFiniteSet(Unnamed) /\ IsFiniteSet(Requests)
           /\ Cardinality(Slots) + Cardinality(Unnamed)
                  <= Cardinality(DOMAIN registry) + Cardinality(Requests)
  <1> DEFINE f == [r \in Writers |-> req[r].id]
  <1>1. /\ Writers \in SUBSET Requests /\ Unnamed \in SUBSET Requests
        /\ Writers \cap Unnamed = {}
    BY DEF Writers, Unnamed, WritingStages, WriteStages
  <1>2. DOMAIN f = Writers /\ f = [x \in Writers |-> f[x]]
    OBVIOUS
  <1>3. Slots = DOMAIN registry \cup {f[x] : x \in Writers}
    BY DEF Slots
  <1> HIDE DEF f
  <1> QED
    BY <1>1, <1>2, <1>3, SlotCount, ConstantsAssumption

\* The same after a step.
LEMMA SlotsFiniteAfter ==
    ASSUME IsFiniteSet(DOMAIN registry')
    PROVE  /\ IsFiniteSet(Slots') /\ IsFiniteSet(Unnamed')
           /\ Cardinality(Slots') + Cardinality(Unnamed')
                  <= Cardinality(DOMAIN registry') + Cardinality(Requests)
  <1> DEFINE f == [r \in Writers' |-> req'[r].id]
  <1>1. /\ Writers' \in SUBSET Requests /\ Unnamed' \in SUBSET Requests
        /\ Writers' \cap Unnamed' = {}
    BY DEF Writers, Unnamed, WritingStages, WriteStages
  <1>2. DOMAIN f = Writers' /\ f = [x \in Writers' |-> f[x]]
    OBVIOUS
  <1>3. Slots' = DOMAIN registry' \cup {f[x] : x \in Writers'}
    BY DEF Slots
  <1> HIDE DEF f
  <1> QED
    BY <1>1, <1>2, <1>3, SlotCount, ConstantsAssumption

LEMMA SizeInit == Init => SizeIInv
  <1> SUFFICES ASSUME Init PROVE SizeIInv
    OBVIOUS
  <1>1. DOMAIN registry = {} /\ phase = "down" /\ adopted = {}
    BY DEF Init, EmptyMap
  <1> QED
    BY <1>1, FS_EmptySet DEF SizeIInv

\* A step that takes no new slot keeps the bound.
LEMMA NoNewSlot ==
    ASSUME IInv, SizeIInv, phase = "up", phase' = "up", adopted' = adopted,
           Slots' \subseteq Slots, Unnamed' \subseteq Unnamed
    PROVE  SizeIInv'
  <1>1. IsFiniteSet(Slots) /\ IsFiniteSet(Unnamed) /\ IsFiniteSet(Requests)
    BY SlotsFinite DEF SizeIInv
  <1>2. IsFiniteSet(Slots') /\ Cardinality(Slots') <= Cardinality(Slots)
    BY <1>1, FS_Subset
  <1>3. IsFiniteSet(Unnamed') /\ Cardinality(Unnamed') <= Cardinality(Unnamed)
    BY <1>1, FS_Subset
  <1>4. IsFiniteSet(DOMAIN registry')
    <2>1. DOMAIN registry' \in SUBSET Slots'
      BY DEF Slots
    <2> QED
      BY <2>1, <1>2, FS_Subset
  <1>5. Ceiling' = Ceiling /\ Ceiling \in Int /\ IsFiniteSet(adopted')
    BY CeilingFacts DEF Ceiling, SizeIInv
  <1>6. /\ Cardinality(Slots) \in Nat /\ Cardinality(Unnamed) \in Nat
        /\ Cardinality(Slots') \in Nat /\ Cardinality(Unnamed') \in Nat
        /\ Cardinality(Requests) \in Nat
    BY <1>1, <1>2, <1>3, FS_CardinalityType
  <1>7. Cardinality(Slots) + Cardinality(Unnamed) <= Ceiling
    BY DEF SizeIInv
  <1>8. Cardinality(Slots') + Cardinality(Unnamed') <= Ceiling'
    BY <1>2, <1>3, <1>5, <1>6, <1>7
  <1> QED
    BY <1>4, <1>5, <1>8 DEF SizeIInv

\* One request steps: it writes only an id that had a slot, and goes on with a
\* slot only if it had one.
LEMMA RequestSize ==
    ASSUME IInv, SizeIInv, NEW r \in Requests, phase = "up", phase' = "up", adopted' = adopted,
           \A s \in Requests \ {r} : req'[s] = req[s],
           DOMAIN registry' \subseteq Slots,
           req'[r].stage \in WritingStages => req'[r].id \in Slots,
           req'[r].stage \in {"new-window", "slug"} => r \in Unnamed
    PROVE  SizeIInv'
  <1>1. ASSUME NEW s \in Requests, s \in Writers' PROVE req'[s].id \in Slots
    <2>1. CASE s = r
      BY <1>1, <2>1 DEF Writers, WritingStages, WriteStages
    <2>2. CASE s # r
      BY <1>1, <2>2 DEF Writers, Slots, WritingStages, WriteStages
    <2> QED
      BY <2>1, <2>2
  <1>2. Slots' \subseteq Slots
    BY <1>1 DEF Slots, Writers
  <1>3. Unnamed' \subseteq Unnamed
    BY DEF Unnamed
  <1> QED
    BY <1>2, <1>3, NoNewSlot

\* The boot: every adoption is counted, and no request is in flight.
LEMMA BootSize ==
    ASSUME IInv, SizeIInv, Boot
    PROVE  SizeIInv'
  <1>0. phase # "up"
    BY DEF Boot, EnsureSession, SyncPaneMap, ListWindows, FinishBoot, AdoptWindow
  <1>1. \A r \in Requests : req'[r] = Idle
    <2>1. req' = req
      BY DEF Boot, EnsureSession, SyncPaneMap, ListWindows, FinishBoot, AdoptWindow
    <2> QED
      BY <2>1, <1>0 DEF IInv, BoundsOK
  <1>2. ASSUME IsFiniteSet(adopted'), DOMAIN registry' \subseteq adopted'
        PROVE  SizeIInv'
    <2>1. Writers' = {} /\ Unnamed' = {}
      BY <1>1 DEF Writers, Unnamed, WritingStages, WriteStages, Idle
    <2>2. Slots' = DOMAIN registry'
      BY <2>1 DEF Slots
    <2>3. Cardinality(Unnamed') = 0
      BY <2>1, FS_EmptySet
    <2>4. /\ IsFiniteSet(DOMAIN registry')
          /\ Cardinality(DOMAIN registry') <= Cardinality(adopted')
      BY <1>2, FS_Subset
    <2>5. Cardinality(adopted') \in Nat /\ Cardinality(DOMAIN registry') \in Nat
          /\ Cardinality(Requests) \in Nat
      BY <1>2, <2>4, ConstantsAssumption, FS_CardinalityType
    <2>6. Cardinality(adopted') <= Ceiling' /\ Ceiling' \in Int
      BY <2>5, ConstantsAssumption DEF Ceiling
    <2>7. Cardinality(Slots') + Cardinality(Unnamed') <= Ceiling'
      BY <2>2, <2>3, <2>4, <2>5, <2>6
    <2> QED
      BY <1>2, <2>4, <2>7 DEF SizeIInv
  <1>3. \/ DOMAIN registry' \subseteq DOMAIN registry /\ adopted' = adopted
        \/ \E id : /\ DOMAIN registry' = DOMAIN registry \cup {id}
                   /\ adopted' = adopted \cup {id}
    BY DEF Boot, EnsureSession, SyncPaneMap, ListWindows, FinishBoot, AdoptWindow, MapSet,
           brokerVars
  <1>4. DOMAIN registry \subseteq adopted /\ IsFiniteSet(adopted)
    BY <1>0 DEF SizeIInv
  <1>5. IsFiniteSet(adopted') /\ DOMAIN registry' \subseteq adopted'
    <2>1. CASE DOMAIN registry' \subseteq DOMAIN registry /\ adopted' = adopted
      BY <1>4, <2>1
    <2>2. CASE \E id : /\ DOMAIN registry' = DOMAIN registry \cup {id}
                       /\ adopted' = adopted \cup {id}
      <3>1. PICK id : /\ DOMAIN registry' = DOMAIN registry \cup {id}
                      /\ adopted' = adopted \cup {id}
        BY <2>2
      <3>2. IsFiniteSet(adopted \cup {id})
        BY <1>4, FS_AddElement
      <3> QED
        BY <1>4, <3>1, <3>2
    <2> QED
      BY <1>3, <2>1, <2>2
  <1> QED
    BY <1>2, <1>5

\* A request starts: below the cap, or from an entry that is there.
LEMMA CallSize ==
    ASSUME IInv, SizeIInv, NEW r \in Requests, Call(r)
    PROVE  SizeIInv'
  <1>1. /\ phase = "up" /\ phase' = "up" /\ registry' = registry /\ adopted' = adopted
        /\ IsFiniteSet(DOMAIN registry) /\ Cardinality(DOMAIN registry) \in Nat
        /\ IsFiniteSet(adopted) /\ Ceiling' = Ceiling
    <2>1. phase = "up" /\ UNCHANGED <<bootVars, brokerVars>>
      BY DEF Call, CreateBegin, DestroyBegin, RenameBegin, GetBegin, Idling
    <2> QED
      BY <2>1, FS_CardinalityType DEF SizeIInv, Ceiling, bootVars, brokerVars
  <1>2. ASSUME NEW title, CreateBegin(r, title)
        PROVE  SizeIInv'
    <2>1. Cardinality(DOMAIN registry) < MaxTerminals
      BY <1>2 DEF CreateBegin
    <2>2. /\ IsFiniteSet(Slots') /\ IsFiniteSet(Unnamed')
          /\ Cardinality(Slots') + Cardinality(Unnamed')
                 <= Cardinality(DOMAIN registry) + Cardinality(Requests)
      BY <1>1, SlotsFiniteAfter
    <2>3. MaxTerminals - 1 + Cardinality(Requests) <= Ceiling' /\ Ceiling' \in Int
      BY <1>1, CeilingFacts
    <2>4. /\ Cardinality(Slots') \in Nat /\ Cardinality(Unnamed') \in Nat
          /\ Cardinality(Requests) \in Nat
      BY <2>2, ConstantsAssumption, FS_CardinalityType
    <2>5. Cardinality(Slots') + Cardinality(Unnamed') <= Ceiling'
      BY <1>1, <2>1, <2>2, <2>3, <2>4, ConstantsAssumption
    <2> QED
      BY <1>1, <2>5 DEF SizeIInv
  <1>3. ASSUME NEW id \in DOMAIN registry, NEW v, req' = [req EXCEPT ![r] = v],
               v.id = id, v.stage \notin {"new-window", "slug"}
        PROVE  SizeIInv'
    <2>1. req'[r] = v /\ \A s \in Requests \ {r} : req'[s] = req[s]
      BY <1>3 DEF IInv, TypeOK
    <2>2. DOMAIN registry' \subseteq Slots /\ id \in Slots
      BY <1>1 DEF Slots
    <2> QED
      BY <1>1, <1>3, <2>1, <2>2, RequestSize
  <1>4. ASSUME NEW id \in DOMAIN registry,
               DestroyBegin(r, id) \/ GetBegin(r, id)
        PROVE  SizeIInv'
    <2>1. CASE DestroyBegin(r, id)
      <3> DEFINE v == Captured(id, "kill-window")
      <3>1. req' = [req EXCEPT ![r] = v] /\ v.id = id /\ v.stage = "kill-window"
        BY <2>1 DEF DestroyBegin, Captured
      <3> HIDE DEF v
      <3> QED
        BY <3>1, <1>3
    <2>2. CASE GetBegin(r, id)
      <3> DEFINE v == Captured(id, "read-pids")
      <3>1. req' = [req EXCEPT ![r] = v] /\ v.id = id /\ v.stage = "read-pids"
        BY <2>2 DEF GetBegin, Captured
      <3> HIDE DEF v
      <3> QED
        BY <3>1, <1>3
    <2> QED
      BY <1>4, <2>1, <2>2
  <1>5. ASSUME NEW id \in DOMAIN registry, NEW title, RenameBegin(r, id, title)
        PROVE  SizeIInv'
    <2> DEFINE v == [Captured(id, "rename-window") EXCEPT !.title = title]
    <2>1. req' = [req EXCEPT ![r] = v] /\ v.id = id /\ v.stage = "rename-window"
      BY <1>5 DEF RenameBegin, Captured
    <2> HIDE DEF v
    <2> QED
      BY <2>1, <1>3
  <1> QED
    BY <1>2, <1>4, <1>5 DEF Call

\* A handler goes on: create turns a request without an id into one slot, the
\* others keep the slot they have.
LEMMA ContinueSize ==
    ASSUME IInv, SizeIInv, NEW r \in Requests, Continue(r)
    PROVE  SizeIInv'
  <1>0. req \in [Requests -> RequestRecords]
    BY DEF IInv, TypeOK, RequestRecords
  <1>1. phase = "up" /\ phase' = "up" /\ adopted' = adopted
    <2>1. phase = "up"
      BY DEF Continue, At, NewWindow, NewWindowFails, ChooseSlug, LabelWindow, ReadNewPids,
             Register, ReadPaneId, BindPane, KillWindow, Evict, RenameWindow, WriteTitle,
             ReadPids, WriteSnapshot
    <2>2. UNCHANGED bootVars
      BY DEF Continue, NewWindow, NewWindowFails, ChooseSlug, LabelWindow, ReadNewPids,
             Register, ReadPaneId, BindPane, KillWindow, Evict, RenameWindow, WriteTitle,
             ReadPids, WriteSnapshot
    <2> QED
      BY <2>1, <2>2 DEF bootVars
  <1>2. DOMAIN registry \subseteq Slots /\ \A s \in Writers : req[s].id \in Slots
    BY DEF Slots
  <1>3. ASSUME NEW st, Goto(r, st)
        PROVE  /\ req'[r].stage = st /\ req'[r].id = req[r].id
               /\ \A s \in Requests \ {r} : req'[s] = req[s]
    BY <1>0, <1>3 DEF Goto, RequestRecords
  <1>4. ASSUME Return(r)
        PROVE  req'[r].stage = "idle" /\ \A s \in Requests \ {r} : req'[s] = req[s]
    BY <1>0, <1>4 DEF Return, Idle
  <1>5. WritingStages \cap {"idle", "new-window", "slug", "pane", "bind", "evict"} = {}
    BY DEF WritingStages, WriteStages
  <1>6. ASSUME DOMAIN registry' \subseteq Slots,
               \/ Return(r)
               \/ \E st \in Stages : Goto(r, st) /\ st \notin WritingStages \cup {"new-window", "slug"}
               \/ r \in Writers /\ \E st \in WritingStages : Goto(r, st)
        PROVE  SizeIInv'
    <2>1. CASE Return(r)
      BY <1>1, <1>4, <1>5, <1>6, <2>1, RequestSize
    <2>2. ASSUME NEW st \in Stages, Goto(r, st), st \notin WritingStages \cup {"new-window", "slug"}
          PROVE  SizeIInv'
      BY <1>1, <1>3, <1>6, <2>2, RequestSize
    <2>3. ASSUME r \in Writers, NEW st \in WritingStages, Goto(r, st)
          PROVE  SizeIInv'
      BY <1>1, <1>2, <1>3, <1>5, <1>6, <2>3, RequestSize
    <2> QED
      BY <1>6, <2>1, <2>2, <2>3
  <1>7. ASSUME NEW st \in WritingStages, req[r].stage = st PROVE r \in Writers
    BY <1>7 DEF Writers
  <1>10. CASE NewWindow(r)
    <2>1. /\ req[r].stage = "new-window" /\ registry' = registry
          /\ req' = [req EXCEPT ![r] = [req[r] EXCEPT !.stage = "slug", !.windowId = nextWindow]]
      BY <1>10 DEF NewWindow, At, brokerVars
    <2>2. req'[r].stage = "slug" /\ \A s \in Requests \ {r} : req'[s] = req[s]
      BY <2>1, <1>0 DEF RequestRecords
    <2>3. r \in Unnamed
      BY <2>1 DEF Unnamed
    <2> QED
      BY <1>1, <1>2, <1>5, <2>1, <2>2, <2>3, RequestSize
  <1>11. CASE NewWindowFails(r)
    BY <1>2, <1>6, <1>11 DEF NewWindowFails, brokerVars
  <1>12. CASE ChooseSlug(r)
    <2>1. /\ req[r].stage = "slug" /\ registry' = registry
          /\ \E id, title : req' = [req EXCEPT ![r] =
                 [req[r] EXCEPT !.stage = "rename-new", !.id = id, !.title = title]]
      BY <1>12 DEF ChooseSlug, At
    <2>2. PICK id : req'[r].stage = "rename-new" /\ req'[r].id = id
      BY <2>1, <1>0 DEF RequestRecords
    <2>3. \A s \in Requests \ {r} : req'[s] = req[s]
      BY <2>1, <1>0
    <2>4. Slots' \subseteq Slots \cup {id}
      <3>1. ASSUME NEW s \in Requests, s \in Writers' PROVE req'[s].id \in Slots \cup {id}
        <4>1. CASE s = r
          BY <4>1, <2>2
        <4>2. CASE s # r
          BY <3>1, <4>2, <2>3, <1>2 DEF Writers, WritingStages, WriteStages
        <4> QED
          BY <4>1, <4>2
      <3> QED
        BY <3>1, <2>1, <1>2 DEF Slots, Writers
    <2>5. Unnamed' \subseteq Unnamed \ {r} /\ r \in Unnamed
      BY <2>1, <2>2, <2>3 DEF Unnamed
    <2>6. IsFiniteSet(Slots) /\ IsFiniteSet(Unnamed) /\ IsFiniteSet(Requests)
      BY SlotsFinite DEF SizeIInv
    <2>7. /\ IsFiniteSet(Slots \cup {id})
          /\ Cardinality(Slots \cup {id}) <= Cardinality(Slots) + 1
      <3>1. Cardinality(Slots) \in Nat
        BY <2>6, FS_CardinalityType
      <3>2. Cardinality(Slots \cup {id}) =
                IF id \in Slots THEN Cardinality(Slots) ELSE Cardinality(Slots) + 1
        BY <2>6, FS_AddElement
      <3>3. IsFiniteSet(Slots \cup {id})
        BY <2>6, FS_AddElement
      <3> QED
        BY <3>1, <3>2, <3>3
    <2>8. /\ IsFiniteSet(Unnamed \ {r})
          /\ Cardinality(Unnamed \ {r}) = Cardinality(Unnamed) - 1
      BY <2>5, <2>6, FS_RemoveElement
    <2>9. IsFiniteSet(Slots') /\ Cardinality(Slots') <= Cardinality(Slots \cup {id})
      BY <2>4, <2>7, FS_Subset
    <2>10. IsFiniteSet(Unnamed') /\ Cardinality(Unnamed') <= Cardinality(Unnamed \ {r})
      BY <2>5, <2>8, FS_Subset
    <2>11. Ceiling' = Ceiling /\ Ceiling \in Int /\ IsFiniteSet(adopted')
      BY <1>1, CeilingFacts DEF Ceiling, SizeIInv
    <2>12. /\ Cardinality(Slots) \in Nat /\ Cardinality(Unnamed) \in Nat
           /\ Cardinality(Slots') \in Nat /\ Cardinality(Unnamed') \in Nat
           /\ Cardinality(Slots \cup {id}) \in Nat /\ Cardinality(Requests) \in Nat
      BY <2>6, <2>7, <2>9, <2>10, FS_CardinalityType
    <2>13. Cardinality(Slots) + Cardinality(Unnamed) <= Ceiling
      BY <1>1 DEF SizeIInv
    <2>14. Cardinality(Slots') + Cardinality(Unnamed') <= Ceiling'
      BY <2>7, <2>8, <2>9, <2>10, <2>11, <2>12, <2>13
    <2> QED
      BY <1>1, <2>1, <2>11, <2>14 DEF SizeIInv
  <1>13. CASE LabelWindow(r) \/ RenameWindow(r)
    <2>1. /\ req[r].stage \in {"rename-new", "rename-window"} /\ registry' = registry
          /\ Return(r) \/ Goto(r, "pids") \/ Goto(r, "write-title")
      BY <1>13 DEF LabelWindow, RenameWindow, At, brokerVars
    <2>2. {"rename-new", "rename-window", "pids", "write-title"} \subseteq WritingStages
      BY DEF WritingStages, WriteStages
    <2> QED
      BY <2>1, <2>2, <1>2, <1>6, <1>7
  <1>14. CASE ReadNewPids(r) \/ ReadPids(r)
    <2>1. /\ req[r].stage \in {"pids", "read-pids"} /\ registry' = registry
          /\ Return(r) \/ Goto(r, "register") \/ Goto(r, "write-snapshot")
      BY <1>14 DEF ReadNewPids, ReadPids, At, brokerVars
    <2>2. {"pids", "read-pids", "register", "write-snapshot"} \subseteq WritingStages
      BY DEF WritingStages, WriteStages
    <2> QED
      BY <2>1, <2>2, <1>2, <1>6, <1>7
  <1>15. CASE ReadPaneId(r) \/ BindPane(r) \/ KillWindow(r)
    <2>1. registry' = registry /\ (Return(r) \/ Goto(r, "bind") \/ Goto(r, "evict"))
      BY <1>15 DEF ReadPaneId, BindPane, KillWindow, brokerVars
    <2>2. {"bind", "evict"} \subseteq Stages
      BY DEF Stages
    <2> QED
      BY <2>1, <2>2, <1>2, <1>5, <1>6
  <1>16. CASE Register(r) \/ WriteTitle(r) \/ WriteSnapshot(r)
    <2>1. /\ SetEntry(r) /\ (Return(r) \/ Goto(r, "pane"))
          /\ req[r].stage \in {"register", "write-title", "write-snapshot"}
      BY <1>16 DEF Register, WriteTitle, WriteSnapshot, At
    <2>2. {"register", "write-title", "write-snapshot"} \subseteq WritingStages
          /\ "pane" \in Stages
      BY DEF WritingStages, WriteStages, Stages
    <2>3. DOMAIN registry' \subseteq Slots
      BY <2>1, <2>2, <1>2, <1>7 DEF SetEntry, MapSet
    <2> QED
      BY <2>1, <2>2, <2>3, <1>5, <1>6
  <1>17. CASE Evict(r)
    <2>1. DOMAIN registry' \subseteq DOMAIN registry /\ Return(r)
      BY <1>17 DEF Evict, MapDelete
    <2> QED
      BY <2>1, <1>2, <1>6
  <1> QED
    BY <1>10, <1>11, <1>12, <1>13, <1>14, <1>15, <1>16, <1>17 DEF Continue

LEMMA SizeInvariance == Spec => []SizeIInv
  <1>1. ASSUME IInv, SizeIInv, Environment PROVE SizeIInv'
    <2>1. CASE Crash
      <3>1. DOMAIN registry' = {} /\ phase' = "down" /\ adopted' = {}
        BY <2>1 DEF Crash, EmptyMap
      <3> QED
        BY <3>1, FS_EmptySet DEF SizeIInv
    <2>2. ASSUME ForeignWindow \/ \E w \in DOMAIN windows : ShellExits(w)
          PROVE  SizeIInv'
      <3>1. UNCHANGED <<phase, adopted, registry, req>>
        BY <2>2 DEF ForeignWindow, ShellExits, bootVars, brokerVars
      <3> QED
        BY <1>1, <3>1 DEF SizeIInv, Slots, Writers, Unnamed, Ceiling
    <2> QED
      BY <1>1, <2>1, <2>2 DEF Environment
  <1>2. ASSUME SizeIInv, UNCHANGED vars PROVE SizeIInv'
    <2>1. UNCHANGED <<phase, adopted, registry, req>>
      BY <1>2 DEF vars, bootVars, brokerVars
    <2> QED
      BY <1>2, <2>1 DEF SizeIInv, Slots, Writers, Unnamed, Ceiling
  <1>3. IInv /\ SizeIInv /\ [Next]_vars => SizeIInv'
    BY <1>1, <1>2, BootSize, CallSize, ContinueSize DEF Next
  <1> QED
    BY <1>3, SizeInit, Invariance, PTL DEF Spec

\* The cap of createTerminal is overrun by fewer terminals than there are requests
\* in flight, whatever they are and however they interleave, unless the boot has
\* adopted more than that.
THEOREM CapOverrunBounded == Spec => []RegistrySizeBounded
  <1>1. IInv /\ SizeIInv => RegistrySizeBounded
    <2> SUFFICES ASSUME IInv, SizeIInv
                 PROVE  RegistrySizeBounded
      OBVIOUS
    <2>1. /\ IsFiniteSet(Slots) /\ IsFiniteSet(Unnamed) /\ IsFiniteSet(Requests)
          /\ IsFiniteSet(DOMAIN registry) /\ IsFiniteSet(adopted)
      BY SlotsFinite DEF SizeIInv
    <2>2. DOMAIN registry \in SUBSET Slots
      BY DEF Slots
    <2>3. Cardinality(DOMAIN registry) <= Cardinality(Slots)
      BY <2>1, <2>2, FS_Subset
    <2>4. /\ Cardinality(Slots) \in Nat /\ Cardinality(Unnamed) \in Nat
          /\ Cardinality(Requests) \in Nat /\ Cardinality(DOMAIN registry) \in Nat
      BY <2>1, FS_CardinalityType
    <2>5. CASE phase = "up"
      <3>1. Cardinality(DOMAIN registry) <= Ceiling
        BY <2>1, <2>3, <2>4, <2>5, CeilingFacts DEF SizeIInv
      <3> QED
        BY <3>1, <2>1, <2>4, CeilingFacts, ConstantsAssumption DEF RegistrySizeBounded
    <2>6. CASE phase # "up"
      <3>1. Cardinality(DOMAIN registry) <= Cardinality(adopted)
        BY <2>6, <2>1, FS_Subset DEF SizeIInv
      <3> QED
        BY <3>1 DEF RegistrySizeBounded
    <2> QED
      BY <2>5, <2>6
  <1> QED
    BY <1>1, Invariance, SizeInvariance, PTL

----------------------------------------------------------------------------
(* Adoption: reconcileRegistry overwrites the entry of one kind of window  *)
(* only, whose own slug is the id that another gets with the counter       *)
(* appended.                                                               *)

\* The ids taken so far are the counter's, the slug of the window's own name, or
\* end in a counter of before.
AdoptedIdsOK ==
    \A id \in DOMAIN registry :
        \/ id \in AutoIds \/ id = SlugOf(listing[registry[id].windowId].name)
        \/ \E i \in BaseIds, k \in 1..windowCounter : id = Suffixed(i, k)

AdoptIInv ==
    /\ phase \in {"down", "sync", "list"} => DOMAIN registry = {}
    /\ phase = "adopt" => AdoptedIdsOK /\ DOMAIN windows \subseteq DOMAIN listing \cup lost
    /\ SurvivorsAdopted

LEMMA AdoptInit == Init => AdoptIInv
  BY DEF Init, AdoptIInv, SurvivorsAdopted, EmptyMap

\* The loop's turn for a window that no entry names: its id is one of the three
\* kinds, and the entry that has it, if any, is of a window that is let go.
LEMMA AdoptedIdFacts ==
    ASSUME IInv, AdoptedIdsOK, NEW w \in todo,
           windowCounter < WindowLimit, windowCounter' = windowCounter + 1
    PROVE  LET name == listing[w].name
               id == AdoptedId(name, windowCounter')
           IN  /\ \/ id \in AutoIds \/ id = SlugOf(name)
                  \/ \E i \in BaseIds, k \in 1..windowCounter' : id = Suffixed(i, k)
               /\ id \in DOMAIN registry =>
                      registry[id].windowId \in Buried(name, windowCounter')
  <1>1. /\ windowCounter \in Nat /\ windowCounter' \in Counters
        /\ windowCounter' \in 1..windowCounter' /\ \A k \in 1..windowCounter :
               k \in Counters /\ k # windowCounter'
    BY ConstantFacts DEF IInv, TypeOK, Counters, WindowLimit
  <1>2. PICK name, n : name = listing[w].name /\ n = windowCounter'
    OBVIOUS
  <1>3. name \in Names
    BY <1>2 DEF IInv, TypeOK, WindowRows
  <1>4. PICK slug : slug = BaseId(name, n)
    OBVIOUS
  <1>5. slug \in BaseIds /\ (slug \in AutoIds \/ slug = SlugOf(name))
    BY <1>1, <1>2, <1>3, <1>4 DEF BaseId, BaseIds, AutoIds
  <1>6. PICK id : id = AdoptedId(name, n)
    OBVIOUS
  <1>7. id = IF slug \in DOMAIN registry THEN Suffixed(slug, n) ELSE slug
    BY <1>4, <1>6 DEF AdoptedId
  <1>8. CASE slug \notin DOMAIN registry
    BY <1>2, <1>5, <1>6, <1>7, <1>8
  <1>9. CASE slug \in DOMAIN registry
    <2>1. id = Suffixed(slug, n) /\ id # slug /\ id \notin AutoIds
      BY <1>1, <1>2, <1>5, <1>7, <1>9, NamesAssumption
    <2>2. ASSUME NEW i \in BaseIds, NEW k \in 1..windowCounter
          PROVE  id # Suffixed(i, k)
      BY <1>1, <1>2, <1>5, <2>1, NamesAssumption
    <2>3. id \in DOMAIN registry => SlugOf(listing[registry[id].windowId].name) = id
      BY <2>1, <2>2 DEF AdoptedIdsOK
    <2>4. id \in DOMAIN registry => registry[id].windowId \in Buried(name, n)
      BY <1>4, <1>6, <2>1, <2>3 DEF Buried
    <2> QED
      BY <1>1, <1>2, <1>5, <1>6, <2>1, <2>4
  <1> QED
    BY <1>8, <1>9

LEMMA AdoptWindowKeeps ==
    ASSUME IInv, AdoptIInv, NEW w \in Windows, AdoptWindow(w)
    PROVE  AdoptIInv'
  <1>1. /\ phase = "adopt" /\ phase' = "adopt" /\ w \in todo /\ todo' = todo \ {w}
        /\ listing' = listing /\ windows' = windows
    BY DEF AdoptWindow, tmuxVars
  <1>2. windowCounter \in Nat /\ DOMAIN windows \subseteq DOMAIN listing \cup lost /\ AdoptedIdsOK
    BY <1>1 DEF IInv, TypeOK, AdoptIInv
  <1>3. \A v \in DOMAIN listing \ todo : Live(v) => v \in RegisteredWindows \cup lost
    BY <1>1 DEF AdoptIInv, SurvivorsAdopted
  \* Nothing that was named or let go is forgotten, and w is settled.
  <1>4. ASSUME AdoptedIdsOK', lost \subseteq lost',
               \A v \in RegisteredWindows : Live(v) => v \in RegisteredWindows' \cup lost',
               Live(w) => w \in RegisteredWindows' \cup lost'
        PROVE  AdoptIInv'
    <2>1. SurvivorsAdopted'
      BY <1>1, <1>3, <1>4 DEF SurvivorsAdopted, Live
    <2>2. DOMAIN windows' \subseteq DOMAIN listing' \cup lost'
      BY <1>1, <1>2, <1>4
    <2> QED
      BY <1>1, <1>4, <2>1, <2>2 DEF AdoptIInv
  <1>5. CASE w \in RegisteredWindows
    <2>1. registry' = registry /\ windowCounter' = windowCounter /\ lost' = lost
      BY <1>5 DEF AdoptWindow
    <2> QED
      BY <1>1, <1>2, <1>4, <1>5, <2>1 DEF AdoptedIdsOK, RegisteredWindows
  <1>6. CASE w \notin RegisteredWindows
    <2>1. windowCounter < WindowLimit /\ windowCounter' = windowCounter + 1
      BY <1>6 DEF AdoptWindow
    <2>2. PICK name : name = listing[w].name
      OBVIOUS
    <2>3. PICK id : id = AdoptedId(name, windowCounter')
      OBVIOUS
    <2>4. /\ \/ id \in AutoIds \/ id = SlugOf(name)
             \/ \E i \in BaseIds, k \in 1..windowCounter' : id = Suffixed(i, k)
          /\ id \in DOMAIN registry => registry[id].windowId \in Buried(name, windowCounter')
      BY <1>1, <1>2, <2>1, <2>2, <2>3, AdoptedIdFacts
    <2>5. \A k \in 1..windowCounter : k \in 1..windowCounter'
      BY <1>2, <2>1
    <2>6. CASE /\ CommandSucceeds(w) /\ LetGo(Buried(name, windowCounter'))
               /\ \E t : registry' = MapSet(registry, id, [windowId |-> w, title |-> t])
      <3>1. /\ DOMAIN registry' = DOMAIN registry \cup {id} /\ registry'[id].windowId = w
            /\ \A i \in DOMAIN registry \ {id} : registry'[i] = registry[i]
        BY <2>6 DEF MapSet
      <3>2. AdoptedIdsOK'
        BY <1>1, <1>2, <2>2, <2>4, <2>5, <3>1 DEF AdoptedIdsOK
      <3>3. lost \subseteq lost'
            /\ \A v \in Buried(name, windowCounter') : Live(v) => v \in lost'
        BY <2>6 DEF LetGo, Live
      <3>4. ASSUME NEW v \in RegisteredWindows, Live(v) PROVE v \in RegisteredWindows' \cup lost'
        <4>1. PICK i \in DOMAIN registry : registry[i].windowId = v
          BY DEF RegisteredWindows
        <4>2. CASE i = id
          BY <2>4, <3>3, <3>4, <4>1, <4>2
        <4>3. CASE i # id
          BY <3>1, <4>1, <4>3 DEF RegisteredWindows
        <4> QED
          BY <4>2, <4>3
      <3>5. w \in RegisteredWindows'
        BY <3>1 DEF RegisteredWindows
      <3> QED
        BY <1>4, <3>2, <3>3, <3>4, <3>5
    <2>7. CASE CommandFails(w) /\ LetGo({w}) /\ UNCHANGED <<registry, adopted>>
      <3>1. AdoptedIdsOK'
        BY <1>1, <1>2, <2>5, <2>7 DEF AdoptedIdsOK
      <3>2. lost \subseteq lost' /\ (Live(w) => w \in lost') /\ RegisteredWindows' = RegisteredWindows
        BY <2>7 DEF LetGo, Live, RegisteredWindows
      <3> QED
        BY <1>4, <3>1, <3>2
    <2> QED
      BY <1>6, <2>2, <2>3, <2>6, <2>7 DEF AdoptWindow
  <1> QED
    BY <1>5, <1>6

LEMMA AdoptStep ==
    ASSUME IInv, AdoptIInv, [Next]_vars
    PROVE  AdoptIInv'
  <1>1. DOMAIN listing \subseteq Used /\ nextWindow \notin Used /\ DOMAIN windows \subseteq Used
    BY HeldWindows DEF IInv, TypeOK, Used
  <1>2. CASE Boot
    <2>1. CASE EnsureSession \/ SyncPaneMap
      BY <2>1 DEF EnsureSession, SyncPaneMap, brokerVars, AdoptIInv, SurvivorsAdopted
    <2>2. CASE ListWindows
      <3>1. phase = "list" /\ DOMAIN registry = {} /\ windows' = windows
        BY <2>2 DEF ListWindows, AdoptIInv, tmuxVars
      <3>2. DOMAIN registry' = {}
        BY <2>2, <3>1 DEF ListWindows
      <3>3. \/ phase' = "up"
            \/ phase' = "adopt" /\ listing' = windows /\ todo' = DOMAIN windows
        BY <2>2 DEF ListWindows
      <3> QED
        BY <3>1, <3>2, <3>3 DEF AdoptIInv, SurvivorsAdopted, AdoptedIdsOK
    <2>3. CASE FinishBoot
      BY <2>3 DEF FinishBoot, AdoptIInv, SurvivorsAdopted
    <2> QED
      BY <1>2, <2>1, <2>2, <2>3, AdoptWindowKeeps DEF Boot
  <1>3. ASSUME phase' = "up" PROVE AdoptIInv'
    BY <1>3 DEF AdoptIInv, SurvivorsAdopted
  <1>4. ASSUME NEW r \in Requests, Call(r) PROVE phase' = "up"
    BY <1>4 DEF Call, CreateBegin, DestroyBegin, GetBegin, RenameBegin, Idling, bootVars
  <1>5. ASSUME NEW r \in Requests, Continue(r) PROVE phase' = "up"
    BY <1>5 DEF Continue, NewWindow, NewWindowFails, ChooseSlug, LabelWindow, ReadNewPids,
                Register, ReadPaneId, BindPane, KillWindow, Evict, RenameWindow, WriteTitle,
                ReadPids, WriteSnapshot, At, bootVars
  <1>6. CASE Crash
    BY <1>6 DEF Crash, AdoptIInv, SurvivorsAdopted, EmptyMap
  <1>7. ASSUME UNCHANGED <<bootVars, brokerVars>>, lost \subseteq lost',
               \A w \in DOMAIN windows' : w \in DOMAIN windows \/ w \in lost' \ Used
        PROVE  AdoptIInv'
    <2>1. UNCHANGED <<phase, listing, todo, registry, windowCounter>>
          /\ RegisteredWindows' = RegisteredWindows
      BY <1>7 DEF bootVars, brokerVars, RegisteredWindows
    <2>2. SurvivorsAdopted'
      BY <1>1, <1>7, <2>1 DEF AdoptIInv, SurvivorsAdopted, Live
    <2> QED
      BY <1>7, <2>1, <2>2 DEF AdoptIInv, AdoptedIdsOK
  <1>8. CASE ForeignWindow
    BY <1>1, <1>7, <1>8 DEF ForeignWindow, OpenWindow, MapSet
  <1>9. ASSUME NEW w \in DOMAIN windows, ShellExits(w) PROVE AdoptIInv'
    BY <1>7, <1>9 DEF ShellExits, MapDelete
  <1>10. CASE UNCHANGED vars
    BY <1>7, <1>10 DEF vars, tmuxVars
  <1> QED
    BY <1>2, <1>3, <1>4, <1>5, <1>6, <1>8, <1>9, <1>10 DEF Next, Environment

LEMMA AdoptInvariance == Spec => []AdoptIInv
  <1>1. IInv /\ AdoptIInv /\ [Next]_vars => AdoptIInv'
    BY AdoptStep
  <1> QED
    BY AdoptInit, Invariance, <1>1, PTL DEF Spec

\* A restart registers every window that survived and that the loop has visited, for
\* any number of windows of the same name, whatever their names and whatever fails or
\* is opened meanwhile: all but those on which a command fails and those whose own
\* slug another gets with the counter appended.
THEOREM SurvivorsKeepTerminals == Spec => []SurvivorsAdopted
  <1>1. AdoptIInv => SurvivorsAdopted
    BY DEF AdoptIInv
  <1> QED
    BY AdoptInvariance, <1>1, PTL

----------------------------------------------------------------------------
(* Orphans: a window leaves the registry only when it is closed, let go,   *)
(* or when its id is one that may name a second window.                    *)

\* A terminalId goes with a window, in the registry or in the hands of a request.
Holds(i, w) ==
    \/ i \in DOMAIN registry /\ registry[i].windowId = w
    \/ \E r \in Requests : Named(r) /\ req[r].id = i /\ req[r].windowId = w

\* The other direction of OneIdPerWindow: such an id goes with one window only.
OneWindowPerId ==
    \A i \in Ids, w, v \in Windows :
        Holds(i, w) /\ Holds(i, v) /\ ~Reusable(i) => w = v

\* The counter has passed every id of its own that is in use, but for the reusable.
CountedIds ==
    \A i \in AutoIds, w \in Windows :
        Holds(i, w) => Reusable(i) \/ \E k \in 1..windowCounter : i = AutoId(k)

Gone(w) == w \in DOMAIN windows => w \in lost
EvictedGone == \A r \in Requests : req[r].stage = "evict" => Gone(req[r].windowId)

\* A create that waits for new-window has no window yet.
NoWindowYet == \A r \in Requests : req[r].stage = "new-window" => req[r].windowId = NoWindow

\* What NoOrphanWindows says of one window.
Kept(w) ==
    \/ w \in RegisteredWindows \cup lost
    \/ \E r \in Requests : req[r].windowId = w /\ req[r].stage \in CreateStages

Serving ==
    /\ OneWindowPerId /\ CountedIds /\ EvictedGone /\ NoWindowYet
    /\ \A w \in DOMAIN windows : Kept(w)

OrphanIInv == phase = "up" => Serving

LEMMA OrphanInit == Init => OrphanIInv
  BY DEF Init, OrphanIInv

\* What is held is of the types that OneWindowPerId speaks of.
LEMMA HoldTypes ==
    ASSUME IInv, NEW i, NEW w, Holds(i, w)
    PROVE  i \in Ids /\ w \in Windows /\ w \in Used
  <1>1. \A v \in Used : v \in Windows
    BY ConstantFacts DEF IInv, TypeOK, Used
  <1> QED
    BY <1>1, HeldWindows DEF Holds, HasWindow, IInv, TypeOK, RequestsOK

\* A step of a request that gives no id to a window and opens none.
LEMMA RequestOrphans ==
    ASSUME IInv, Serving, NEW r \in Requests, adopted' = adopted,
           windowCounter' = windowCounter, lost \subseteq lost',
           \A s \in Requests \ {r} : req'[s] = req[s],
           DOMAIN windows' \subseteq DOMAIN windows,
           \A w \in RegisteredWindows \cap DOMAIN windows' :
               w \in RegisteredWindows' \cup lost',
           \A i \in DOMAIN registry' :
               \/ i \in DOMAIN registry /\ registry'[i].windowId = registry[i].windowId
               \/ Named(r) /\ i = req[r].id /\ registry'[i].windowId = req[r].windowId,
           Named(r)' =>
               \/ Named(r) /\ req'[r].id = req[r].id /\ req'[r].windowId = req[r].windowId
               \/ \E i \in DOMAIN registry :
                      req'[r].id = i /\ req'[r].windowId = registry[i].windowId,
           req[r].stage \in CreateStages /\ req[r].windowId \in DOMAIN windows' =>
               \/ req'[r].windowId = req[r].windowId /\ req'[r].stage \in CreateStages
               \/ req[r].windowId \in RegisteredWindows' \cup lost',
           req'[r].stage = "new-window" => req'[r].windowId = NoWindow,
           req'[r].stage = "evict" =>
               (req'[r].windowId \in DOMAIN windows' => req'[r].windowId \in lost')
    PROVE  Serving'
  <1>1. ASSUME NEW i, NEW w, Holds(i, w)' PROVE Holds(i, w)
    <2>1. ASSUME NEW s \in Requests, Named(s)', req'[s].id = i, req'[s].windowId = w
          PROVE  Holds(i, w)
      <3>1. CASE s = r
        BY <2>1, <3>1 DEF Holds
      <3>2. CASE s # r
        <4>1. Named(s)
          BY <2>1, <3>2 DEF Named, NamedStages
        <4> QED
          BY <2>1, <3>2, <4>1 DEF Holds
      <3> QED
        BY <3>1, <3>2
    <2> QED
      BY <1>1, <2>1 DEF Holds
  <1>2. OneWindowPerId' /\ CountedIds'
    BY <1>1 DEF Serving, OneWindowPerId, CountedIds, Reusable
  <1>3. EvictedGone'
    <2> SUFFICES ASSUME NEW s \in Requests, req'[s].stage = "evict",
                        req'[s].windowId \in DOMAIN windows'
                 PROVE  req'[s].windowId \in lost'
      BY DEF EvictedGone, Gone
    <2>1. CASE s = r
      BY <2>1
    <2>2. CASE s # r
      <3>1. req[s] = req'[s] /\ req'[s].windowId \in DOMAIN windows
        BY <2>2
      <3>2. req'[s].windowId \in lost
        BY <3>1 DEF Serving, EvictedGone, Gone
      <3> QED
        BY <3>2
    <2> QED
      BY <2>1, <2>2
  <1>4. ASSUME NEW w \in DOMAIN windows' PROVE Kept(w)'
    <2>1. Kept(w)
      BY DEF Serving
    <2>2. ASSUME NEW s \in Requests, req[s].windowId = w, req[s].stage \in CreateStages
          PROVE  Kept(w)'
      <3>1. CASE s = r
        BY <2>2, <3>1 DEF Kept
      <3>2. CASE s # r
        BY <2>2, <3>2 DEF Kept
      <3> QED
        BY <3>1, <3>2
    <2> QED
      BY <2>1, <2>2 DEF Kept
  <1>5. NoWindowYet'
    <2> SUFFICES ASSUME NEW s \in Requests, req'[s].stage = "new-window"
                 PROVE  req'[s].windowId = NoWindow
      BY DEF NoWindowYet
    <2> QED
      BY DEF Serving, NoWindowYet
  <1> QED
    BY <1>2, <1>3, <1>4, <1>5 DEF Serving

\* Writing or deleting an entry takes nothing from the registry but the window it
\* named, and that only when it is let go.
LEMMA SetEntryKeepsWindows ==
    ASSUME IInv, Serving, NEW r \in Requests, Named(r), SetEntry(r), windows' = windows
    PROVE  /\ lost \subseteq lost'
           /\ req[r].windowId \in RegisteredWindows'
           /\ \A w \in RegisteredWindows \cap DOMAIN windows' :
                 w \in RegisteredWindows' \cup lost'
           /\ \A i \in DOMAIN registry' :
                 \/ i \in DOMAIN registry /\ registry'[i].windowId = registry[i].windowId
                 \/ Named(r) /\ i = req[r].id /\ registry'[i].windowId = req[r].windowId
  <1>1. /\ DOMAIN registry' = DOMAIN registry \cup {req[r].id}
        /\ registry'[req[r].id].windowId = req[r].windowId
        /\ \A i \in DOMAIN registry \ {req[r].id} : registry'[i] = registry[i]
        /\ LetGoOfEntry(r)
    BY DEF SetEntry, MapSet
  <1>2. ASSUME NEW i \in DOMAIN registry, registry[i].windowId \in DOMAIN windows'
        PROVE  registry[i].windowId \in RegisteredWindows' \cup lost'
    <2>1. CASE i # req[r].id
      BY <1>1, <2>1 DEF RegisteredWindows
    <2>2. CASE i = req[r].id /\ registry[i].windowId = req[r].windowId
      BY <1>1, <2>2 DEF RegisteredWindows
    <2>3. CASE i = req[r].id /\ registry[i].windowId # req[r].windowId
      <3>1. Holds(i, registry[i].windowId) /\ Holds(i, req[r].windowId)
        BY <2>3 DEF Holds
      <3>2. Reusable(i)
        BY <2>3, <3>1, HoldTypes DEF Serving, OneWindowPerId
      <3> QED
        BY <1>1, <1>2, <2>3, <3>2 DEF LetGoOfEntry, LetGo
    <2> QED
      BY <2>1, <2>2, <2>3
  <1>3. lost \subseteq lost'
    BY <1>1 DEF LetGoOfEntry, LetGo
  <1> QED
    BY <1>1, <1>2, <1>3 DEF RegisteredWindows

LEMMA EvictKeepsWindows ==
    ASSUME IInv, Serving, NEW r \in Requests, Named(r), Gone(req[r].windowId),
           registry' = MapDelete(registry, req[r].id), LetGoOfEntry(r), windows' = windows
    PROVE  /\ lost \subseteq lost'
           /\ \A w \in RegisteredWindows \cap DOMAIN windows' :
                 w \in RegisteredWindows' \cup lost'
           /\ \A i \in DOMAIN registry' : i \in DOMAIN registry /\ registry'[i] = registry[i]
  <1>1. /\ DOMAIN registry' = DOMAIN registry \ {req[r].id}
        /\ \A i \in DOMAIN registry' : registry'[i] = registry[i]
    BY DEF MapDelete
  <1>2. lost \subseteq lost'
    BY DEF LetGoOfEntry, LetGo
  <1>3. ASSUME NEW i \in DOMAIN registry, registry[i].windowId \in DOMAIN windows'
        PROVE  registry[i].windowId \in RegisteredWindows' \cup lost'
    <2>1. CASE i # req[r].id
      BY <1>1, <2>1 DEF RegisteredWindows
    <2>2. CASE registry[i].windowId = req[r].windowId
      BY <1>2, <1>3, <2>2 DEF Gone
    <2>3. CASE i = req[r].id /\ registry[i].windowId # req[r].windowId
      <3>1. Holds(i, registry[i].windowId) /\ Holds(i, req[r].windowId)
        BY <2>3 DEF Holds
      <3>2. Reusable(i)
        BY <2>3, <3>1, HoldTypes DEF Serving, OneWindowPerId
      <3> QED
        BY <1>3, <2>3, <3>2 DEF LetGoOfEntry, LetGo
    <2> QED
      BY <2>1, <2>2, <2>3
  <1> QED
    BY <1>1, <1>2, <1>3 DEF RegisteredWindows

\* What a request is after each of its moves.
LEMMA RequestMoves ==
    ASSUME IInv, NEW r \in Requests
    PROVE  /\ Return(r) => /\ req'[r].stage = "idle" /\ req'[r].windowId = NoWindow
                           /\ \A s \in Requests \ {r} : req'[s] = req[s]
           /\ \A stage : Goto(r, stage) =>
                 /\ req'[r].stage = stage /\ req'[r].id = req[r].id
                 /\ req'[r].windowId = req[r].windowId
                 /\ \A s \in Requests \ {r} : req'[s] = req[s]
  <1>1. req \in [Requests -> RequestRecords]
    BY DEF IInv, TypeOK, RequestRecords
  <1>2. ASSUME Return(r)
        PROVE  /\ req'[r].stage = "idle" /\ req'[r].windowId = NoWindow
               /\ \A s \in Requests \ {r} : req'[s] = req[s]
    BY <1>1, <1>2 DEF Return, Idle
  <1>3. ASSUME NEW stage, Goto(r, stage)
        PROVE  /\ req'[r].stage = stage /\ req'[r].id = req[r].id
               /\ req'[r].windowId = req[r].windowId
               /\ \A s \in Requests \ {r} : req'[s] = req[s]
    BY <1>1, <1>3 DEF Goto, RequestRecords
  <1> QED
    BY <1>2, <1>3

\* A request begins: it takes nothing but what an entry of the registry says.
LEMMA CallOrphans ==
    ASSUME IInv, Serving, NEW r \in Requests, Call(r)
    PROVE  Serving'
  <1>1. /\ windowCounter' = windowCounter /\ windows' = windows /\ lost' = lost
        /\ registry' = registry /\ req[r].stage = "idle" /\ adopted' = adopted
    BY DEF Call, CreateBegin, DestroyBegin, GetBegin, RenameBegin, Idling, bootVars, brokerVars,
           tmuxVars
  <1>2. req \in [Requests -> RequestRecords] /\ "idle" \notin CreateStages
    BY DEF IInv, TypeOK, RequestRecords, CreateStages
  <1>3. RegisteredWindows' = RegisteredWindows
    BY <1>1 DEF RegisteredWindows
  <1>4. ASSUME NEW title, CreateBegin(r, title) PROVE Serving'
    <2>1. /\ req'[r].stage = "new-window" /\ req'[r].windowId = NoWindow
          /\ \A s \in Requests \ {r} : req'[s] = req[s]
      BY <1>2, <1>4 DEF CreateBegin, Idle
    <2>2. ~Named(r)'
      BY <2>1 DEF Named, NamedStages
    <2> QED
      BY <1>1, <1>2, <1>3, <2>1, <2>2, RequestOrphans
  <1>5. ASSUME NEW i \in DOMAIN registry, NEW v, v.id = i, v.windowId = registry[i].windowId,
               v.stage \notin {"evict", "new-window"}, req' = [req EXCEPT ![r] = v]
        PROVE  Serving'
    <2>1. /\ req'[r] = v /\ \A s \in Requests \ {r} : req'[s] = req[s]
      BY <1>2, <1>5
    <2> QED
      BY <1>1, <1>2, <1>3, <1>5, <2>1, RequestOrphans
  <1>6. ASSUME NEW i \in DOMAIN registry, NEW stage \in {"kill-window", "read-pids"},
               req' = [req EXCEPT ![r] = Captured(i, stage)]
        PROVE  Serving'
    <2> DEFINE v == Captured(i, stage)
    <2>1. /\ v.id = i /\ v.windowId = registry[i].windowId
          /\ v.stage \notin {"evict", "new-window"}
      BY DEF Captured
    <2> HIDE DEF v
    <2> QED
      BY <1>5, <1>6, <2>1 DEF v
  <1>7. ASSUME NEW i \in DOMAIN registry, DestroyBegin(r, i) \/ GetBegin(r, i) PROVE Serving'
    BY <1>6, <1>7 DEF DestroyBegin, GetBegin
  <1>8. ASSUME NEW i \in DOMAIN registry, NEW title, RenameBegin(r, i, title) PROVE Serving'
    <2> DEFINE v == [Captured(i, "rename-window") EXCEPT !.title = title]
    <2>1. /\ v.id = i /\ v.windowId = registry[i].windowId
          /\ v.stage \notin {"evict", "new-window"}
          /\ req' = [req EXCEPT ![r] = v]
      BY <1>8 DEF Captured, RenameBegin
    <2> HIDE DEF v
    <2> QED
      BY <1>5, <2>1
  <1> QED
    BY <1>4, <1>7, <1>8 DEF Call

\* A window is opened for a create, which has it or lets it go.
LEMMA NewWindowOrphans ==
    ASSUME IInv, Serving, NEW r \in Requests, NewWindow(r) \/ (NewWindowFails(r) /\ OpenWindow)
    PROVE  Serving'
  <1>1. /\ registry' = registry /\ windowCounter' = windowCounter /\ adopted' = adopted
        /\ RegisteredWindows' = RegisteredWindows /\ req[r].stage = "new-window"
        /\ OpenWindow /\ lost \subseteq lost'
    BY DEF NewWindow, NewWindowFails, At, bootVars, brokerVars, RegisteredWindows
  <1>2. /\ ~Named(r)' /\ req'[r].stage \notin {"evict", "new-window"}
        /\ \A s \in Requests \ {r} : req'[s] = req[s]
        /\ \/ req'[r].stage = "slug" /\ req'[r].windowId = nextWindow
           \/ nextWindow \in lost'
    <2>1. CASE NewWindow(r)
      <3>1. /\ req'[r].stage = "slug" /\ req'[r].windowId = nextWindow
            /\ \A s \in Requests \ {r} : req'[s] = req[s]
        BY <2>1 DEF NewWindow, IInv, TypeOK
      <3> QED
        BY <3>1 DEF Named, NamedStages
    <2>2. CASE NewWindowFails(r) /\ OpenWindow
      <3>1. Return(r) /\ nextWindow \in Nat
        BY <2>2, HeldWindows DEF NewWindowFails
      <3>2. nextWindow' # nextWindow
        BY <2>2, <3>1 DEF OpenWindow
      <3>3. nextWindow \in lost'
        BY <2>2, <3>2 DEF NewWindowFails, tmuxVars
      <3> QED
        BY <3>1, <3>3, RequestMoves DEF Named, NamedStages
    <2> QED
      BY <2>1, <2>2
  <1>3. DOMAIN windows' = DOMAIN windows \cup {nextWindow} /\ nextWindow \notin Used
    BY <1>1, HeldWindows DEF OpenWindow, MapSet
  <1>4. ASSUME NEW i, NEW w, Holds(i, w)' PROVE Holds(i, w)
    BY <1>1, <1>2, <1>4 DEF Holds, Named, NamedStages
  <1>5. OneWindowPerId' /\ CountedIds'
    BY <1>1, <1>4 DEF Serving, OneWindowPerId, CountedIds, Reusable
  <1>6. EvictedGone'
    <2>1. ASSUME NEW s \in Requests, s # r, req[s].stage = "evict"
          PROVE  Gone(req[s].windowId) /\ req[s].windowId # nextWindow
      BY <1>3, <2>1, HeldWindows, WritersHaveWindow DEF Serving, EvictedGone
    <2> QED
      BY <1>1, <1>2, <1>3, <2>1 DEF EvictedGone, Gone
  <1>7. ASSUME NEW w \in DOMAIN windows' PROVE Kept(w)'
    <2>1. CASE w = nextWindow
      BY <1>2, <2>1 DEF Kept, CreateStages
    <2>2. CASE w # nextWindow
      <3>1. Kept(w)
        BY <1>3, <2>2 DEF Serving
      <3>2. ASSUME req[r].windowId = w PROVE FALSE
        <4>1. w = NoWindow /\ w \in Used
          BY <1>1, <1>3, <2>2, <3>2, HeldWindows DEF Serving, NoWindowYet
        <4> QED
          BY <4>1, HeldWindows DEF Used, NoWindow
      <3> QED
        BY <1>1, <1>2, <3>1, <3>2 DEF Kept
    <2> QED
      BY <2>1, <2>2
  <1>8. NoWindowYet'
    BY <1>2 DEF Serving, NoWindowYet
  <1> QED
    BY <1>5, <1>6, <1>7, <1>8 DEF Serving

\* A create takes an id: a slug that may be taken twice, or the counter's next.
LEMMA ChooseSlugOrphans ==
    ASSUME IInv, Serving, NEW r \in Requests, ChooseSlug(r)
    PROVE  Serving'
  <1>1. /\ registry' = registry /\ windows' = windows /\ adopted' = adopted /\ lost' = lost
        /\ RegisteredWindows' = RegisteredWindows /\ req[r].stage = "slug"
        /\ windowCounter < WindowLimit /\ windowCounter' = windowCounter + 1
        /\ windowCounter \in Nat
    BY DEF ChooseSlug, At, bootVars, tmuxVars, RegisteredWindows, IInv, TypeOK
  <1>2. PICK id, n : n = windowCounter' /\ id = CreatedId(req[r].title, n)
    OBVIOUS
  <1>3. /\ req'[r].stage = "rename-new" /\ req'[r].id = id
        /\ req'[r].windowId = req[r].windowId
        /\ \A s \in Requests \ {r} : req'[s] = req[s]
    BY <1>2 DEF ChooseSlug, IInv, TypeOK
  <1>4. /\ n \in Counters /\ n \in 1..windowCounter' /\ WindowLimit \in Nat
        /\ \A k \in 1..windowCounter : k \in Counters /\ k # n /\ k \in 1..windowCounter'
    BY <1>1, <1>2, ConstantFacts DEF Counters
  <1>5. Reusable(id) \/ id = AutoId(n)
    <2>1. req[r].title \in Titles \cup {NoTitle}
      BY <1>1 DEF IInv, RequestsOK
    <2> QED
      BY <1>2, <2>1 DEF CreatedId, Reusable, TitleSlugs
  <1>6. \A i : Reusable(i)' <=> Reusable(i)
    BY <1>1 DEF Reusable
  <1>7. ASSUME NEW w \in Windows, Holds(id, w) PROVE Reusable(id)
    <2>1. CASE id = AutoId(n)
      BY <1>4, <1>7, <2>1, NamesAssumption DEF Serving, CountedIds, AutoIds
    <2> QED
      BY <1>5, <2>1
  <1>8. ASSUME NEW i, NEW w, Holds(i, w)'
        PROVE  Holds(i, w) \/ (i = id /\ w = req[r].windowId)
    BY <1>1, <1>3, <1>8 DEF Holds, Named
  <1>9. OneWindowPerId'
    <2> SUFFICES ASSUME NEW i \in Ids, NEW w \in Windows, NEW v \in Windows,
                        Holds(i, w)', Holds(i, v)', ~Reusable(i)
                 PROVE  w = v
      BY <1>6 DEF OneWindowPerId
    <2>1. CASE i = id
      BY <1>7, <1>8, <2>1
    <2>2. CASE i # id
      BY <1>8, <2>2 DEF Serving, OneWindowPerId
    <2> QED
      BY <2>1, <2>2
  <1>10. CountedIds'
    <2> SUFFICES ASSUME NEW i \in AutoIds, NEW w \in Windows, Holds(i, w)', ~Reusable(i)
                 PROVE  \E k \in 1..windowCounter' : i = AutoId(k)
      BY <1>6 DEF CountedIds
    <2> QED
      BY <1>4, <1>5, <1>8 DEF Serving, CountedIds
  <1>11. EvictedGone'
    BY <1>1, <1>3 DEF Serving, EvictedGone, Gone
  <1>12. ASSUME NEW w \in DOMAIN windows' PROVE Kept(w)'
    BY <1>1, <1>3 DEF Serving, Kept, CreateStages
  <1>13. NoWindowYet'
    BY <1>3 DEF Serving, NoWindowYet
  <1> QED
    BY <1>9, <1>10, <1>11, <1>12, <1>13 DEF Serving

\* A command that ends: nothing is written, and a create that gives up lets its
\* window go if that is still there.
LEMMA CommandOrphans ==
    ASSUME IInv, Serving, NEW r \in Requests, adopted' = adopted,
           brokerVars' = brokerVars, DOMAIN windows' \subseteq DOMAIN windows, lost \subseteq lost',
           \/ /\ Return(r)
              /\ \/ req[r].stage \notin CreateStages
                 \/ req[r].stage = "new-window"
                 \/ req[r].windowId \in DOMAIN windows' => req[r].windowId \in lost'
           \/ \E stage \in Stages \ {"new-window"} :
                 /\ Goto(r, stage) /\ Named(r)
                 /\ req[r].stage \in CreateStages => stage \in CreateStages
                 /\ stage = "evict" =>
                       (req[r].windowId \in DOMAIN windows' => req[r].windowId \in lost')
    PROVE  Serving'
  <1>1. registry' = registry /\ windowCounter' = windowCounter
    BY DEF brokerVars
  <1>2. RegisteredWindows' = RegisteredWindows
    BY <1>1 DEF RegisteredWindows
  <1>3. CASE /\ Return(r)
             /\ \/ req[r].stage \notin CreateStages
                \/ req[r].stage = "new-window"
                \/ req[r].windowId \in DOMAIN windows' => req[r].windowId \in lost'
    <2>1. /\ req'[r].stage = "idle" /\ \A s \in Requests \ {r} : req'[s] = req[s]
      BY <1>3, RequestMoves
    <2>2. ~Named(r)'
      BY <2>1 DEF Named, NamedStages
    <2>3. req[r].stage = "new-window" => req[r].windowId \notin DOMAIN windows
      BY HeldWindows DEF Serving, NoWindowYet, NoWindow, Used
    <2>4. req[r].stage \in CreateStages /\ req[r].windowId \in DOMAIN windows' =>
              req[r].windowId \in lost'
      BY <1>3, <2>3
    <2> QED
      BY <1>1, <1>2, <2>1, <2>2, <2>4, RequestOrphans
  <1>4. ASSUME NEW stage \in Stages \ {"new-window"}, Goto(r, stage), Named(r),
               req[r].stage \in CreateStages => stage \in CreateStages,
               stage = "evict" =>
                   (req[r].windowId \in DOMAIN windows' => req[r].windowId \in lost')
        PROVE  Serving'
    <2>1. /\ req'[r].stage = stage /\ req'[r].id = req[r].id
          /\ req'[r].windowId = req[r].windowId
          /\ \A s \in Requests \ {r} : req'[s] = req[s]
      BY <1>4, RequestMoves
    <2>2. Named(r)' =>
              Named(r) /\ req'[r].id = req[r].id /\ req'[r].windowId = req[r].windowId
      BY <1>4, <2>1
    <2>3. req[r].stage \in CreateStages =>
              req'[r].windowId = req[r].windowId /\ req'[r].stage \in CreateStages
      BY <1>4, <2>1
    <2>4. /\ req'[r].stage # "new-window"
          /\ req'[r].stage = "evict" =>
                (req'[r].windowId \in DOMAIN windows' => req'[r].windowId \in lost')
      BY <1>4, <2>1
    <2> QED
      BY <1>1, <1>2, <2>1, <2>2, <2>3, <2>4, RequestOrphans
  <1> QED
    BY <1>3, <1>4

\* A handler writes the registry.
LEMMA WriteOrphans ==
    ASSUME IInv, Serving, NEW r \in Requests,
           Register(r) \/ WriteTitle(r) \/ WriteSnapshot(r) \/ Evict(r)
    PROVE  Serving'
  <1>1. /\ windowCounter' = windowCounter /\ windows' = windows /\ adopted' = adopted /\ Named(r)
    BY DEF Register, WriteTitle, WriteSnapshot, Evict, At, bootVars, tmuxVars, Named,
           NamedStages, Stages, CreateStages, WriteStages
  <1>2. CASE Register(r) \/ WriteTitle(r) \/ WriteSnapshot(r)
    <2>1. SetEntry(r) /\ (Goto(r, "pane") \/ Return(r))
      BY <1>2 DEF Register, WriteTitle, WriteSnapshot
    <2>2. /\ lost \subseteq lost'
          /\ req[r].windowId \in RegisteredWindows'
          /\ \A w \in RegisteredWindows \cap DOMAIN windows' :
                w \in RegisteredWindows' \cup lost'
          /\ \A i \in DOMAIN registry' :
                \/ i \in DOMAIN registry /\ registry'[i].windowId = registry[i].windowId
                \/ Named(r) /\ i = req[r].id /\ registry'[i].windowId = req[r].windowId
      BY <1>1, <2>1, SetEntryKeepsWindows
    <2>3. /\ req'[r].stage \notin {"evict", "new-window"}
          /\ Named(r)' => req'[r].id = req[r].id /\ req'[r].windowId = req[r].windowId
          /\ \A s \in Requests \ {r} : req'[s] = req[s]
      BY <2>1, RequestMoves DEF Named, NamedStages
    <2> QED
      BY <1>1, <2>2, <2>3, RequestOrphans
  <1>3. CASE Evict(r)
    <2>1. /\ registry' = MapDelete(registry, req[r].id) /\ Return(r) /\ req[r].stage = "evict"
          /\ LetGoOfEntry(r)
      BY <1>3 DEF Evict, At
    <2>2. Gone(req[r].windowId) /\ "evict" \notin CreateStages
      BY <2>1 DEF Serving, EvictedGone, CreateStages
    <2>3. /\ lost \subseteq lost'
          /\ \A w \in RegisteredWindows \cap DOMAIN windows' :
                w \in RegisteredWindows' \cup lost'
          /\ \A i \in DOMAIN registry' : i \in DOMAIN registry /\ registry'[i] = registry[i]
      BY <1>1, <2>1, <2>2, EvictKeepsWindows
    <2>4. req'[r].stage = "idle" /\ \A s \in Requests \ {r} : req'[s] = req[s]
      BY <2>1, RequestMoves
    <2>5. ~Named(r)'
      BY <2>4 DEF Named, NamedStages
    <2> QED
      BY <1>1, <2>1, <2>2, <2>3, <2>4, <2>5, RequestOrphans
  <1> QED
    BY <1>2, <1>3

LEMMA ContinueOrphans ==
    ASSUME IInv, Serving, NEW r \in Requests, Continue(r)
    PROVE  Serving'
  <1>1. \A w : LetGo({w}) => /\ lost \subseteq lost'
                             /\ w \in DOMAIN windows => w \in lost'
    BY DEF LetGo
  <1>2. {"pids", "register", "bind", "evict", "write-title", "write-snapshot"} \subseteq Stages
    BY DEF Stages, CreateStages, WriteStages
  <1>3. CASE NewWindowFails(r)
    <2>1. CASE UNCHANGED <<tmuxVars, lost>>
      BY <1>3, <2>1, CommandOrphans DEF NewWindowFails, At, bootVars, tmuxVars
    <2>2. CASE OpenWindow
      BY <1>3, <2>2, NewWindowOrphans
    <2> QED
      BY <1>3, <2>1, <2>2 DEF NewWindowFails
  <1>4. CASE BindPane(r)
    <2>1. /\ windowCounter' = windowCounter /\ registry' = registry /\ adopted' = adopted
          /\ windows' = windows /\ lost' = lost /\ Return(r) /\ req[r].stage = "bind"
      BY <1>4 DEF BindPane, At, bootVars, tmuxVars
    <2>2. req'[r].stage = "idle" /\ \A s \in Requests \ {r} : req'[s] = req[s]
      BY <2>1, RequestMoves
    <2>3. ~Named(r)' /\ RegisteredWindows' = RegisteredWindows /\ "bind" \notin CreateStages
      BY <2>1, <2>2 DEF Named, NamedStages, CreateStages, RegisteredWindows
    <2> QED
      BY <2>1, <2>2, <2>3, RequestOrphans
  <1>5. CASE LabelWindow(r)
    <2>1. /\ adopted' = adopted /\ brokerVars' = brokerVars
          /\ DOMAIN windows' = DOMAIN windows /\ Named(r)
      BY <1>5 DEF LabelWindow, At, bootVars, Named, NamedStages, Stages, CreateStages
    <2>2. \/ Goto(r, "pids") /\ lost' = lost
          \/ Return(r) /\ LetGo({req[r].windowId})
      BY <1>5 DEF LabelWindow
    <2>3. CASE Goto(r, "pids") /\ lost' = lost
      BY <1>2, <2>1, <2>3, CommandOrphans DEF CreateStages
    <2>4. CASE Return(r) /\ LetGo({req[r].windowId})
      BY <1>1, <2>1, <2>4, CommandOrphans
    <2> QED
      BY <2>2, <2>3, <2>4
  <1>6. CASE ReadNewPids(r)
    <2>1. adopted' = adopted /\ brokerVars' = brokerVars /\ windows' = windows /\ Named(r)
      BY <1>6 DEF ReadNewPids, At, bootVars, tmuxVars, Named, NamedStages, Stages, CreateStages
    <2>2. \/ Goto(r, "register") /\ lost' = lost
          \/ Return(r) /\ LetGo({req[r].windowId})
      BY <1>6 DEF ReadNewPids
    <2>3. CASE Goto(r, "register") /\ lost' = lost
      BY <1>2, <2>1, <2>3, CommandOrphans DEF CreateStages
    <2>4. CASE Return(r) /\ LetGo({req[r].windowId})
      BY <1>1, <2>1, <2>4, CommandOrphans
    <2> QED
      BY <2>2, <2>3, <2>4
  <1>7. CASE RenameWindow(r) \/ ReadPaneId(r) \/ ReadPids(r)
    <2>1. /\ adopted' = adopted /\ brokerVars' = brokerVars /\ lost' = lost
          /\ DOMAIN windows' = DOMAIN windows
          /\ req[r].stage \in {"rename-window", "pane", "read-pids"}
      BY <1>7 DEF RenameWindow, ReadPaneId, ReadPids, At, bootVars, tmuxVars
    <2>2. Named(r) /\ req[r].stage \notin CreateStages
      BY <2>1 DEF Named, NamedStages, Stages, CreateStages, WriteStages
    <2>3. Return(r) \/ \E stage \in {"write-title", "bind", "write-snapshot"} : Goto(r, stage)
      BY <1>7 DEF RenameWindow, ReadPaneId, ReadPids
    <2> QED
      BY <1>2, <2>1, <2>2, <2>3, CommandOrphans
  <1>8. CASE KillWindow(r)
    <2>1. /\ adopted' = adopted /\ brokerVars' = brokerVars /\ Goto(r, "evict")
          /\ req[r].stage = "kill-window" /\ DOMAIN windows' \subseteq DOMAIN windows
      BY <1>8 DEF KillWindow, At, bootVars, MapDelete
    <2>2. Named(r) /\ req[r].stage \notin CreateStages
      BY <2>1 DEF Named, NamedStages, Stages, CreateStages
    <2>3. /\ lost \subseteq lost'
          /\ req[r].windowId \in DOMAIN windows' => req[r].windowId \in lost'
      <3>1. CASE LetGo({req[r].windowId})
        BY <1>1, <2>1, <3>1
      <3>2. CASE windows' = MapDelete(windows, req[r].windowId) /\ lost' = lost
        BY <3>2 DEF MapDelete
      <3> QED
        BY <1>8, <3>1, <3>2 DEF KillWindow
    <2> QED
      BY <1>2, <2>1, <2>2, <2>3, CommandOrphans
  <1>9. CASE Register(r) \/ WriteTitle(r) \/ WriteSnapshot(r) \/ Evict(r)
    BY <1>9, WriteOrphans
  <1> QED
    BY <1>3, <1>4, <1>5, <1>6, <1>7, <1>8, <1>9, NewWindowOrphans, ChooseSlugOrphans
       DEF Continue

\* The boot ends with every window registered or let go, and with the ids of what it
\* adopted only.
LEMMA BootOrphans ==
    ASSUME IInv, SizeIInv, AdoptIInv, Boot
    PROVE  OrphanIInv'
  <1> SUFFICES ASSUME phase' = "up" PROVE Serving'
    BY DEF OrphanIInv
  <1>1. phase # "up" /\ req' = req
    BY DEF Boot, EnsureSession, SyncPaneMap, ListWindows, FinishBoot, AdoptWindow
  <1>2. \A r \in Requests : req'[r].stage = "idle"
    BY <1>1 DEF IInv, BoundsOK, Idle
  <1>3. ListWindows \/ FinishBoot
    BY DEF Boot, EnsureSession, SyncPaneMap, AdoptWindow
  <1>4. DOMAIN registry \subseteq adopted
    BY <1>1 DEF SizeIInv
  <1>5. /\ DOMAIN registry' \subseteq adopted'
        /\ \A w \in DOMAIN windows' : w \in RegisteredWindows' \cup lost'
    <2>1. CASE ListWindows
      BY <1>1, <1>4, <2>1 DEF ListWindows, tmuxVars
    <2>2. CASE FinishBoot
      <3>1. /\ phase = "adopt" /\ todo = {} /\ windows' = windows /\ registry' = registry
            /\ adopted' = adopted /\ lost' = lost /\ RegisteredWindows' = RegisteredWindows
        BY <2>2 DEF FinishBoot, tmuxVars, brokerVars, RegisteredWindows
      <3>2. \A w \in DOMAIN windows : w \in RegisteredWindows \cup lost
        BY <3>1 DEF AdoptIInv, SurvivorsAdopted, Live
      <3> QED
        BY <1>4, <3>1, <3>2
    <2> QED
      BY <1>3, <2>1, <2>2
  <1>6. \A i, w : Holds(i, w)' => i \in DOMAIN registry' /\ registry'[i].windowId = w
    BY <1>2 DEF Holds, Named, NamedStages
  <1>7. OneWindowPerId' /\ CountedIds'
    BY <1>5, <1>6 DEF OneWindowPerId, CountedIds, Reusable
  <1>8. EvictedGone' /\ NoWindowYet' /\ \A w \in DOMAIN windows' : Kept(w)'
    BY <1>2, <1>5 DEF EvictedGone, NoWindowYet, Kept
  <1> QED
    BY <1>7, <1>8 DEF Serving

\* What tmux does by itself.
LEMMA EnvironmentOrphans ==
    ASSUME IInv, OrphanIInv, Environment
    PROVE  OrphanIInv'
  <1>1. CASE Crash
    BY <1>1 DEF Crash, OrphanIInv
  <1>2. ASSUME UNCHANGED <<bootVars, brokerVars, req>>, lost \subseteq lost',
               \A w \in DOMAIN windows' : w \in DOMAIN windows \/ w \in lost'
        PROVE  OrphanIInv'
    <2>1. UNCHANGED <<phase, adopted, registry, windowCounter, req>>
          /\ RegisteredWindows' = RegisteredWindows
      BY <1>2 DEF bootVars, brokerVars, RegisteredWindows
    <2> SUFFICES ASSUME Serving PROVE Serving'
      BY <2>1 DEF OrphanIInv
    <2>2. OneWindowPerId' /\ CountedIds'
      BY <2>1 DEF Serving, OneWindowPerId, CountedIds, Holds, Named, Reusable
    <2>3. EvictedGone' /\ NoWindowYet' /\ \A w \in DOMAIN windows' : Kept(w)'
      BY <1>2, <2>1 DEF Serving, EvictedGone, NoWindowYet, Gone, Kept
    <2> QED
      BY <2>2, <2>3 DEF Serving
  <1>3. CASE ForeignWindow
    BY <1>2, <1>3 DEF ForeignWindow, OpenWindow, MapSet
  <1>4. ASSUME NEW w \in DOMAIN windows, ShellExits(w) PROVE OrphanIInv'
    BY <1>2, <1>4 DEF ShellExits, MapDelete
  <1> QED
    BY <1>1, <1>3, <1>4 DEF Environment

\* No window leaks unseen: while the broker serves requests, every live window is in
\* the registry, in the hands of the create that will register it, or was let go of
\* for a cause that the model names, whatever titles clients give, and whatever
\* requests, faults, closing shells, windows opened by hand and restarts interleave.
THEOREM NoWindowLeaks == Spec => []NoOrphanWindows
  <1>1. IInv /\ SizeIInv /\ AdoptIInv /\ OrphanIInv /\ [Next]_vars => OrphanIInv'
    <2> SUFFICES ASSUME IInv, SizeIInv, AdoptIInv, OrphanIInv, [Next]_vars PROVE OrphanIInv'
      OBVIOUS
    <2>1. CASE UNCHANGED vars
      <3>1. UNCHANGED <<windows, phase, adopted, registry, windowCounter, req, lost>>
        BY <2>1 DEF vars, tmuxVars, bootVars, brokerVars
      <3> QED
        BY <3>1 DEF OrphanIInv, Serving, OneWindowPerId, CountedIds, EvictedGone, NoWindowYet, Gone,
                    Kept, Holds, Named, Reusable, RegisteredWindows
    <2>2. ASSUME NEW r \in Requests, Call(r) \/ Continue(r) PROVE OrphanIInv'
      <3>1. phase = "up"
        BY <2>2 DEF Call, CreateBegin, DestroyBegin, GetBegin, RenameBegin, Idling, Continue,
               NewWindow, NewWindowFails, ChooseSlug, LabelWindow, ReadNewPids, Register,
               ReadPaneId, BindPane, KillWindow, Evict, RenameWindow, WriteTitle, ReadPids,
               WriteSnapshot, At
      <3> QED
        BY <2>2, <3>1, CallOrphans, ContinueOrphans DEF OrphanIInv
    <2> QED
      BY <2>1, <2>2, BootOrphans, EnvironmentOrphans DEF Next
  <1>2. OrphanIInv => NoOrphanWindows
    BY DEF OrphanIInv, Serving, Kept, NoOrphanWindows
  <1> QED
    BY OrphanInit, Invariance, SizeInvariance, AdoptInvariance, <1>1, <1>2, PTL DEF Spec
============================================================================
