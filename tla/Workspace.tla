----------------------------- MODULE Workspace -----------------------------
(***************************************************************************)
(* The pages of ddx-term-web that list terminals and lead from one to      *)
(* another: TerminalWorkspace with its side panel, TerminalListView and    *)
(* the page that creates a terminal.                                       *)
(*                                                                         *)
(* A page keeps its own copy of the broker's list.  It polls the broker,   *)
(* and changes the copy ahead of the broker when the user kills, creates   *)
(* or renames a terminal, while agents and other browsers change the       *)
(* list too.  Requests overlap, fail, and are answered in any order; their *)
(* answers were taken some time before the page applies them.  A           *)
(* navigation is a transition of the App Router: it commits some time      *)
(* after router.push, the page goes on meanwhile, and the last push wins.  *)
(* A page of other parameters is another component: its state starts       *)
(* afresh, and what was in flight for the one before is cancelled.         *)
(*                                                                         *)
(* The terminal `terminal-n' is n; its title is a number, 0 at first.  The *)
(* three presentations of the list are one page.                           *)
(***************************************************************************)
EXTENDS Integers, FiniteSets, SequencesExt

CONSTANTS
    MaxIds,      \* terminalIds that occur
    MaxTitle,    \* titles users type
    MaxGets,     \* bound: lists requested and not yet applied
    MaxEvents    \* bound: what the user, agents, other browsers and shells do,
                 \* and requests that fail

ASSUME WorkspaceAssumption ==
    /\ MaxIds \in Nat \ {0} /\ MaxGets \in Nat \ {0}
    /\ {MaxTitle, MaxEvents} \subseteq Nat

Ids == 1..MaxIds
NoId == 0
Titles == 0..MaxTitle
Modes == {"view", "edit", "readonly"}

VARIABLES
    registry,   \* the broker's list, in the order of its Map
    page,       \* where the browser is
    terminals,  \* the page's copy of the list
    flags,      \* the page's loading and notFound; its client was told that the window
                \* closed (told); history: its terminal was not in the registry (absent)
    panel,      \* the rows of the side panel that are not in view mode
    nav,        \* the navigation that has not committed, or NoPage
    requests,   \* REST requests in flight
    events      \* how many of MaxEvents there were

pageVars == <<page, terminals, flags, panel>>
workspaceVars == <<registry, pageVars, nav, requests, events>>

IdsOf(list) == {list[i].id : i \in DOMAIN list}
Position(list, id) == SelectInSeq(list, LAMBDA row : row.id = id)
Without(list, id) == SelectSeq(list, LAMBDA row : row.id # id)

(* Map.set keeps the place of a key that is there.                              *)
WithRow(list, row) ==
    IF row.id \in IdsOf(list)
    THEN [i \in DOMAIN list |-> IF list[i].id = row.id THEN row ELSE list[i]]
    ELSE Append(list, row)

View(id, mode) == [route |-> "view", id |-> id, mode |-> mode]
ListPage == [route |-> "list", id |-> NoId, mode |-> "view"]
NewPage == [route |-> "new", id |-> NoId, mode |-> "view"]
NoPage == [route |-> "none", id |-> NoId, mode |-> "view"]
Pages == {View(id, mode) : id \in Ids, mode \in Modes} \cup {ListPage, NewPage}

(* Lists that are asked for and not answered are alike; every other request is   *)
(* told apart by when it was sent.                                               *)
Request(kind, id, title, initial) ==
    [kind |-> kind, id |-> id, title |-> title, initial |-> initial,
     event |-> IF kind = "list" THEN 0 ELSE events,
     answered |-> FALSE, list |-> <<>>, current |-> TRUE]
Gets == {r \in requests : r.kind = "list"}
Send(r) == requests' = requests \cup {r}

(* A page begins with one request for the list: for `new' to count it.          *)
FirstRequest(target) ==
    Request(IF target.route = "new" THEN "count" ELSE "list", NoId, 0, TRUE)

FlagsOf(target) ==
    [loading |-> TRUE, notFound |-> FALSE, told |-> FALSE,
     absent |-> target.route = "view" /\ target.id \notin IdsOf(registry)]

(* Any page can be opened by its URL, whatever terminals there are.             *)
WorkspaceInit ==
    /\ registry \in {[i \in 1..n |-> [id |-> i, title |-> 0]] : n \in 0..MaxIds}
    /\ page \in Pages
    /\ terminals = <<>> /\ panel = [id \in {} |-> 0]
    /\ flags = FlagsOf(page)
    /\ nav = NoPage
    /\ events = 0
    /\ requests = {FirstRequest(page)}

OnView == page.route = "view"

Event == events < MaxEvents /\ events' = events + 1

------------------------------------------------------------------------------
(* The list                                                                     *)

Confirming == -1    \* a row's mode confirmKill; its mode rename is its draft

(* The rows of the panel are keyed by terminal: one that leaves the list loses  *)
(* its mode.  On the edit page the row of the active terminal, which was not    *)
(* there before, starts with its title in an input.                             *)
PanelOver(list, loading) ==
    LET before == IF flags.loading THEN {} ELSE IdsOf(terminals)
        opens(row) == page.mode = "edit" /\ row.id = page.id /\ row.id \notin before
        new == IF loading THEN {} ELSE {row \in ToSet(list) : opens(row)}
    IN [id \in (DOMAIN panel \cap IdsOf(list)) \cup {row.id : row \in new} |->
            IF id \in DOMAIN panel THEN panel[id] ELSE (CHOOSE row \in new : row.id = id).title]

SetTerminals(list) == terminals' = list /\ panel' = PanelOver(list, flags.loading)

Push(target) == nav' = target

(* navigateToNeighbor: the terminal that takes the place of one that is gone.   *)
NavigateToNeighbor(dead) ==
    LET at == Position(terminals, dead)
        next == Without(terminals, dead)
    IN /\ SetTerminals(next)
       /\ Push(IF at = 0 \/ next = <<>> THEN ListPage
               ELSE View(next[IF at <= Len(next) THEN at ELSE Len(next)].id, "view"))

(* The interval of two seconds, on the pages that show a list.                  *)
Poll ==
    /\ page.route # "new" /\ Cardinality(Gets) < MaxGets
    /\ Send(Request("list", NoId, 0, FALSE))
    /\ UNCHANGED <<registry, pageVars, nav, events>>

(* Mutant: the effect's clean-up is forgotten.                                  *)
AppliesToAny(r) == TRUE

(* `cancelled' is false.                                                        *)
Applies(r) == r.current

(* The answer that ends loading: on the page of a terminal, the first; on the   *)
(* list, any.                                                                   *)
EndsLoading(r) == r.kind = "list" /\ r.current /\ (r.initial \/ page.route = "list")

(* Mutant: terminals the page knows are kept.                                   *)
ReconciledMerging(list) ==
    list \o SelectSeq(terminals, LAMBDA row : row.id \notin IdsOf(list))

Reconciled(list) == list

(* Mutant: only the first answer can tell.                                      *)
TellsNotFoundAtFirst(r) == r.initial /\ page.id \notin IdsOf(r.list)

TellsNotFound(r) == ~r.initial /\ page.id \notin IdsOf(r.list)

(* refresh: the answer replaces the list, optimistic changes included.  A page  *)
(* whose terminal is missing says so, which disposes of its client.             *)
ListAnswered(r) ==
    /\ r \in Gets /\ r.answered
    /\ requests' = requests \ {r}
    /\ IF Applies(r)
       THEN LET list == Reconciled(r.list)
                loading == flags.loading /\ ~EndsLoading(r)
                notFound == flags.notFound \/ (OnView /\ TellsNotFound(r))
            IN /\ terminals' = list
               /\ panel' = PanelOver(list, loading)
               /\ flags' = [flags EXCEPT !.loading = loading, !.notFound = notFound,
                                         !.told = @ /\ ~notFound]
       ELSE UNCHANGED <<terminals, panel, flags>>
    /\ UNCHANGED <<registry, page, nav, events>>

------------------------------------------------------------------------------
(* Navigation                                                                   *)

(* The page that is pushed replaces the one that is shown, unless it is that.   *)
Commit ==
    /\ nav # NoPage
    /\ nav' = NoPage
    /\ IF nav = page
       THEN UNCHANGED <<pageVars, requests>>
       ELSE /\ page' = nav
            /\ terminals' = <<>> /\ panel' = [id \in {} |-> 0]
            /\ flags' = FlagsOf(nav)
            /\ requests' = {[r EXCEPT !.current = FALSE] : r \in requests} \cup {FirstRequest(nav)}
    /\ UNCHANGED <<registry, events>>

(* onExit: the client of the page has read window-close.                        *)
OnExit ==
    /\ flags.told
    /\ flags' = [flags EXCEPT !.told = FALSE]
    /\ NavigateToNeighbor(page.id)
    /\ UNCHANGED <<registry, page, requests, events>>

------------------------------------------------------------------------------
(* The user                                                                     *)

RowsShown == page.route # "new" /\ ~flags.notFound /\ ~flags.loading
Mutable == OnView /\ page.mode # "readonly"

(* A row of the panel or of the list; the button of the list; the button of the *)
(* page that found no terminal.                                                 *)
Select(id) == RowsShown /\ id \in IdsOf(terminals) /\ Push(View(id, "view"))
GoToNew == page.route = "list" /\ Push(NewPage)
BackToList == flags.notFound /\ Push(ListPage)

Navigate ==
    /\ Event
    /\ (\E id \in Ids : Select(id)) \/ GoToNew \/ BackToList
    /\ UNCHANGED <<registry, pageVars, requests>>

(* handleNew, by a button or by a key: the title counts the page's list.        *)
HandleNew ==
    /\ Event /\ Mutable /\ Len(terminals) < MaxIds
    /\ Send(Request("create", Len(terminals) + 1, 0, FALSE))
    /\ UNCHANGED <<registry, pageVars, nav>>

(* A row asks before it kills, and takes a title before it renames; both can be *)
(* cancelled.                                                                   *)
SetRowMode(id) ==
    /\ RowsShown /\ Mutable /\ events < MaxEvents
    /\ \/ /\ id \in IdsOf(terminals) \ DOMAIN panel
          /\ \E mode \in {Confirming, terminals[Position(terminals, id)].title} :
                panel' = [i \in DOMAIN panel \cup {id} |-> IF i = id THEN mode ELSE panel[i]]
       \/ /\ id \in DOMAIN panel /\ panel[id] # Confirming
          /\ \E t \in Titles : panel' = [panel EXCEPT ![id] = t]
       \/ /\ id \in DOMAIN panel
          /\ panel' = [i \in DOMAIN panel \ {id} |-> panel[i]]
    /\ UNCHANGED <<registry, page, terminals, flags, nav, requests, events>>

(* handleKill: the list drops the terminal before the broker does.              *)
HandleKill(id) ==
    /\ Event /\ RowsShown /\ Mutable
    /\ id \in DOMAIN panel /\ panel[id] = Confirming
    /\ IF id = page.id THEN NavigateToNeighbor(id)
       ELSE SetTerminals(Without(terminals, id)) /\ UNCHANGED nav
    /\ Send(Request("destroy", id, 0, FALSE))
    /\ UNCHANGED <<registry, page, flags>>

(* commitRename: a draft that is the title the list now has is not sent.        *)
CommitRename(id) ==
    /\ Event /\ RowsShown /\ Mutable
    /\ id \in DOMAIN panel /\ panel[id] # Confirming
    /\ panel' = [i \in DOMAIN panel \ {id} |-> panel[i]]
    /\ IF panel[id] # terminals[Position(terminals, id)].title
       THEN Send(Request("rename", id, panel[id], FALSE)) ELSE UNCHANGED requests
    /\ UNCHANGED <<registry, page, terminals, flags, nav>>

------------------------------------------------------------------------------
(* The broker                                                                   *)

(* The registry changes; whether the page's terminal has been missing since     *)
(* the page was opened is noted, and whether its client is told that its        *)
(* window closed depends on its connection and on when the registry forgets it. *)
SetRegistry(list, closed) ==
    /\ registry' = list
    /\ \E told \in IF OnView /\ ~flags.notFound /\ page.id = closed /\ closed \in IdsOf(registry)
                   THEN BOOLEAN ELSE {FALSE} :
          flags' = [flags EXCEPT !.told = @ \/ told,
                                 !.absent = @ \/ (OnView /\ page.id \notin IdsOf(list))]

(* create: a title's slug that is taken is taken over.                          *)
Created(id) == SetRegistry(WithRow(registry, [id |-> id, title |-> 0]), NoId)
Destroyed(id) == SetRegistry(Without(registry, id), id)
Renamed(id, title) == SetRegistry(WithRow(registry, [id |-> id, title |-> title]), NoId)

Answered(r, list) ==
    requests' = (requests \ {r}) \cup {[r EXCEPT !.answered = TRUE, !.list = list]}

BrokerAnswers(r) ==
    /\ r \in requests /\ ~r.answered
    /\ \/ /\ r.kind \in {"list", "count"}
          /\ Answered(r, registry) /\ UNCHANGED <<registry, flags>>
       \/ r.kind = "create" /\ Created(r.id) /\ Answered(r, <<>>)
       \/ r.kind = "destroy" /\ Destroyed(r.id) /\ requests' = requests \ {r}
       \/ /\ r.kind = "rename" /\ r.id \in IdsOf(registry)
          /\ Renamed(r.id, r.title) /\ Answered(r, <<>>)
    /\ UNCHANGED <<page, terminals, panel, nav, events>>

(* No connection, an error status, a terminal that is gone: what was to come    *)
(* of the answer does not.                                                      *)
RequestFails(r) ==
    /\ r \in requests
    /\ \/ Event
       \/ r.kind = "rename" /\ ~r.answered /\ r.id \notin IdsOf(registry) /\ UNCHANGED events
    /\ requests' = requests \ {r}
    /\ LET loading == flags.loading /\ ~EndsLoading(r)
       IN /\ flags' = [flags EXCEPT !.loading = loading]
          /\ panel' = PanelOver(terminals, loading)
    /\ UNCHANGED <<registry, page, terminals, nav>>

(* The page that creates a terminal counts the list, and creates.               *)
CountAnswered(r) ==
    /\ r \in requests /\ r.kind = "count" /\ r.answered /\ Len(r.list) < MaxIds
    /\ requests' = (requests \ {r}) \cup
           {[Request("create", Len(r.list) + 1, 0, FALSE) EXCEPT !.current = FALSE]}
    /\ UNCHANGED <<registry, pageVars, nav, events>>

(* The terminal is appended to the list, there or not, and opened, wherever the *)
(* user has gone in the meantime.                                               *)
CreateAnswered(r) ==
    /\ r \in requests /\ r.kind = "create" /\ r.answered
    /\ requests' = requests \ {r}
    /\ Push(View(r.id, "view"))
    /\ IF r.current THEN SetTerminals(Append(terminals, [id |-> r.id, title |-> 0]))
       ELSE UNCHANGED <<terminals, panel>>
    /\ UNCHANGED <<registry, page, flags, events>>

RenameAnswered(r) ==
    /\ r \in requests /\ r.kind = "rename" /\ r.answered
    /\ requests' = requests \ {r}
    /\ terminals' = IF r.current /\ r.id \in IdsOf(terminals)
                    THEN WithRow(terminals, [id |-> r.id, title |-> r.title]) ELSE terminals
    /\ UNCHANGED <<registry, page, flags, panel, nav, events>>

(* Agents and other browsers; a shell that exits leaves its entry behind.       *)
OthersAct(id) ==
    /\ Event
    /\ \/ Created(id)
       \/ id \in IdsOf(registry) /\ Destroyed(id)
       \/ id \in IdsOf(registry) /\ SetRegistry(registry, id)
       \/ id \in IdsOf(registry) /\ \E t \in Titles : Renamed(id, t)
    /\ UNCHANGED <<page, terminals, panel, nav, requests>>

------------------------------------------------------------------------------
AnswerTaken(r) == ListAnswered(r) \/ CountAnswered(r) \/ CreateAnswered(r) \/ RenameAnswered(r)

WorkspaceNext ==
    \/ Poll \/ Commit \/ OnExit \/ Navigate \/ HandleNew
    \/ \E id \in Ids : SetRowMode(id) \/ HandleKill(id) \/ CommitRename(id) \/ OthersAct(id)
    \/ \E r \in requests : BrokerAnswers(r) \/ RequestFails(r) \/ AnswerTaken(r)

(* The request the page began with.                                             *)
IsFirst(r) == r.initial /\ r.current

(* The interval fires, the broker answers and callbacks run: for the first      *)
(* request of the page, and for the others one after another.  Nothing is       *)
(* assumed of navigations, users and agents.                                    *)
WorkspaceFairness ==
    /\ WF_workspaceVars(Poll)
    /\ \A first \in BOOLEAN :
          /\ WF_workspaceVars(\E r \in requests : IsFirst(r) = first /\ BrokerAnswers(r))
          /\ WF_workspaceVars(\E r \in requests : IsFirst(r) = first /\ AnswerTaken(r))

WorkspaceSpec == WorkspaceInit /\ [][WorkspaceNext]_workspaceVars /\ WorkspaceFairness

------------------------------------------------------------------------------
(* Properties                                                                   *)

(* A page says that its terminal does not exist only if the broker had no such  *)
(* terminal at some time since the page was opened, never because of an answer  *)
(* that is older or was for another page (TerminalWorkspace.tsx:124,            *)
(* "Once the poll confirms `terminalId` no longer exists").                     *)
NotFoundIsReal == flags.notFound => flags.absent

(* Once users and agents are quiet, the list that is shown is the broker's and  *)
(* stays so, whatever requests failed, overlapped or were answered out of       *)
(* order: "a transient error self-heals" (TerminalWorkspace.tsx:231).           *)
PanelConverges == <>[](page.route # "new" => ~flags.loading /\ terminals = registry)

(* A page does not stay on a terminal that is gone: it leaves it or says so,    *)
(* unless there is a terminal of that id again (TerminalWorkspace.tsx:125).     *)
GoneIsNoticed ==
    \A id \in Ids :
        (OnView /\ page.id = id /\ id \notin IdsOf(registry))
            ~> (~OnView \/ page.id # id \/ flags.notFound \/ id \in IdsOf(registry))
==============================================================================
