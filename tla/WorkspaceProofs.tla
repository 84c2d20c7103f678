-------------------------- MODULE WorkspaceProofs --------------------------
(***************************************************************************)
(* A theorem about Workspace, for any number of terminals, requests and    *)
(* events: a page that says its terminal does not exist is right.          *)
(*                                                                         *)
(* That is not inductive.  The page judges by an answer the broker gave    *)
(* some time before, so the inductive invariant speaks of the answers in   *)
(* flight: one that was asked for by the page that is shown, and does not  *)
(* list its terminal, was given while that page was open.  The ones an     *)
(* earlier page asked for list what they like: they are not applied.       *)
(***************************************************************************)
EXTENDS Workspace, TLAPS

Flags == [loading : BOOLEAN, notFound : BOOLEAN, told : BOOLEAN, absent : BOOLEAN]

\* A request has the fields of a request.
RequestShape(r) ==
    r \in [kind : {r.kind}, id : {r.id}, title : {r.title}, initial : BOOLEAN,
           event : {r.event}, answered : BOOLEAN, list : {r.list}, current : BOOLEAN]

ShapesOK == flags \in Flags /\ \A r \in requests : RequestShape(r)

\* The page's terminal is not in the list.
Missing(list) == OnView /\ page.id \notin IdsOf(list)

\* The answer was taken for the page that is shown.
Telling(r) == r.kind = "list" /\ r.answered /\ r.current

AnswersOK ==
    /\ Missing(registry) => flags.absent
    /\ \A r \in requests : Telling(r) /\ Missing(r.list) => flags.absent

FoundIInv == ShapesOK /\ AnswersOK /\ NotFoundIsReal

----------------------------------------------------------------------------
\* The request a page begins with is of the right shape and has no answer.
LEMMA FirstRequestFacts ==
    ASSUME NEW target
    PROVE  RequestShape(FirstRequest(target)) /\ ~FirstRequest(target).answered
  BY DEF FirstRequest, Request, RequestShape

LEMMA FlagsFacts ==
    ASSUME NEW target
    PROVE  /\ FlagsOf(target) \in Flags /\ ~FlagsOf(target).notFound
           /\ target.route = "view" /\ target.id \notin IdsOf(registry)
                  => FlagsOf(target).absent
  BY DEF FlagsOf, Flags

LEMMA FoundInit == WorkspaceInit => FoundIInv
  <1> SUFFICES ASSUME WorkspaceInit PROVE FoundIInv
    OBVIOUS
  <1>1. flags = FlagsOf(page) /\ requests = {FirstRequest(page)}
    BY DEF WorkspaceInit
  <1>2. \A r \in requests : RequestShape(r) /\ ~r.answered
    BY <1>1, FirstRequestFacts
  <1>3. /\ flags \in Flags /\ ~flags.notFound
        /\ Missing(registry) => flags.absent
    BY <1>1, FlagsFacts DEF Missing, OnView
  <1> QED
    BY <1>2, <1>3 DEF FoundIInv, ShapesOK, AnswersOK, Telling, NotFoundIsReal

\* A step that stays on the page keeps the invariant if what it adds to the
\* requests tells nothing, or is the registry as it stands.
LEMMA SamePage ==
    ASSUME FoundIInv, page' = page, flags' \in Flags,
           flags.absent => flags'.absent,
           flags'.notFound => flags.notFound \/ flags'.absent,
           Missing(registry)' => flags'.absent,
           \A r \in requests' : RequestShape(r),
           \A r \in requests' : \/ r \in requests
                                \/ Telling(r) => r.list = registry
    PROVE  FoundIInv'
  <1>1. \A list : Missing(list)' = Missing(list)
    BY DEF Missing, OnView
  <1>2. ASSUME NEW r \in requests', Telling(r), Missing(r.list)
        PROVE  flags'.absent
    BY <1>2 DEF FoundIInv, AnswersOK
  <1>3. ASSUME NEW r \in requests', Telling(r)', Missing(r.list)'
        PROVE  flags'.absent
    BY <1>1, <1>2, <1>3 DEF Telling
  <1>4. ShapesOK' /\ AnswersOK'
    BY <1>3 DEF ShapesOK, AnswersOK, RequestShape
  <1>5. NotFoundIsReal'
    BY DEF FoundIInv, NotFoundIsReal
  <1> QED
    BY <1>4, <1>5 DEF FoundIInv

\* The broker's list changes; what is missing from it now is noted.
LEMMA SetRegistryFacts ==
    ASSUME FoundIInv, NEW list, NEW closed, SetRegistry(list, closed), page' = page
    PROVE  /\ flags' \in Flags /\ flags'.notFound = flags.notFound
           /\ flags.absent => flags'.absent
           /\ Missing(registry)' => flags'.absent
  <1>1. PICK told \in BOOLEAN :
            flags' = [flags EXCEPT !.told = flags.told \/ told,
                                   !.absent = flags.absent \/ (OnView /\ page.id \notin IdsOf(list))]
    BY DEF SetRegistry
  <1>2. flags \in Flags /\ registry' = list
    BY DEF FoundIInv, ShapesOK, SetRegistry
  <1>3. flags' = [loading |-> flags.loading, notFound |-> flags.notFound,
                  told |-> flags.told \/ told,
                  absent |-> flags.absent \/ (OnView /\ page.id \notin IdsOf(list))]
    BY <1>1, <1>2 DEF Flags
  <1>4. flags' \in Flags
    BY <1>2, <1>3 DEF Flags
  <1> QED
    BY <1>2, <1>3, <1>4 DEF Missing, OnView, IdsOf

\* A new request has no answer.
LEMMA RequestFacts ==
    ASSUME NEW kind, NEW id, NEW title, NEW initial \in BOOLEAN
    PROVE  /\ RequestShape(Request(kind, id, title, initial))
           /\ ~Request(kind, id, title, initial).answered
  BY DEF Request, RequestShape

LEMMA FoundStep == FoundIInv /\ [WorkspaceNext]_workspaceVars => FoundIInv'
  <1> SUFFICES ASSUME FoundIInv, [WorkspaceNext]_workspaceVars PROVE FoundIInv'
    OBVIOUS
  <1>0. /\ flags \in Flags /\ \A r \in requests : RequestShape(r)
        /\ Missing(registry) => flags.absent
    BY DEF FoundIInv, ShapesOK, AnswersOK
  \* Most steps leave the registry and the flags alone and send at most one
  \* request, which has no answer.
  <1>1. ASSUME page' = page, registry' = registry, flags' = flags,
               \A r \in requests' : r \in requests \/ (RequestShape(r) /\ ~Telling(r))
        PROVE  FoundIInv'
    <2>1. Missing(registry)' = Missing(registry)
      BY <1>1 DEF Missing, OnView, IdsOf
    <2> QED
      BY <1>0, <1>1, <2>1, SamePage
  <1>2. ASSUME page' = page, registry' = registry, flags' = flags,
               UNCHANGED requests \/ \E kind, id, title : Send(Request(kind, id, title, FALSE))
        PROVE  FoundIInv'
    <2>1. CASE UNCHANGED requests
      BY <1>1, <1>2, <2>1
    <2>2. ASSUME NEW kind, NEW id, NEW title, Send(Request(kind, id, title, FALSE))
          PROVE  FoundIInv'
      <3> DEFINE q == Request(kind, id, title, FALSE)
      <3>1. RequestShape(q) /\ ~q.answered
        BY RequestFacts
      <3> HIDE DEF q
      <3>2. requests' = requests \cup {q}
        BY <2>2 DEF Send, q
      <3> QED
        BY <1>1, <1>2, <3>1, <3>2 DEF Telling
    <2> QED
      BY <1>2, <2>1, <2>2
  <1>3. CASE Poll \/ OnExit \/ Navigate \/ HandleNew
    <2>1. CASE Poll
      BY <1>2, <2>1 DEF Poll, pageVars
    <2>2. CASE OnExit
      <3>1. /\ flags' = [flags EXCEPT !.told = FALSE]
            /\ UNCHANGED <<registry, page, requests>>
        BY <2>2 DEF OnExit
      <3>2. flags' \in Flags /\ flags'.absent = flags.absent /\ flags'.notFound = flags.notFound
        BY <1>0, <3>1 DEF Flags
      <3>3. Missing(registry)' = Missing(registry)
        BY <3>1 DEF Missing, OnView, IdsOf
      <3> QED
        BY <1>0, <3>1, <3>2, <3>3, SamePage
    <2>3. CASE Navigate
      BY <1>2, <2>3 DEF Navigate, pageVars
    <2>4. CASE HandleNew
      BY <1>2, <2>4 DEF HandleNew, pageVars
    <2> QED
      BY <1>3, <2>1, <2>2, <2>3, <2>4
  <1>4. CASE Commit
    <2>1. CASE nav = page
      BY <1>2, <1>4, <2>1 DEF Commit, pageVars
    <2>2. CASE nav # page
      <3>1. /\ page' = nav /\ flags' = FlagsOf(nav) /\ registry' = registry
            /\ requests' = {[r EXCEPT !.current = FALSE] : r \in requests} \cup {FirstRequest(nav)}
        BY <1>4, <2>2 DEF Commit
      <3>2. ASSUME NEW r \in requests'
            PROVE  RequestShape(r) /\ ~Telling(r)
        <4>1. CASE r = FirstRequest(nav)
          BY <4>1, FirstRequestFacts DEF Telling
        <4>2. ASSUME NEW q \in requests, r = [q EXCEPT !.current = FALSE]
              PROVE  RequestShape(r) /\ ~Telling(r)
          <5>1. RequestShape(q)
            BY <1>0
          <5> QED
            BY <4>2, <5>1 DEF RequestShape, Telling
        <4> QED
          BY <3>1, <4>1, <4>2
      <3>3. /\ FlagsOf(nav) \in Flags /\ ~FlagsOf(nav).notFound
            /\ nav.route = "view" /\ nav.id \notin IdsOf(registry) => FlagsOf(nav).absent
        BY FlagsFacts
      <3>4. Missing(registry)' => flags'.absent
        BY <3>1, <3>3 DEF Missing, OnView, IdsOf
      <3>5. ShapesOK' /\ AnswersOK' /\ NotFoundIsReal'
        BY <3>1, <3>2, <3>3, <3>4 DEF ShapesOK, AnswersOK, NotFoundIsReal, RequestShape, Telling
      <3> QED
        BY <3>5 DEF FoundIInv
    <2> QED
      BY <2>1, <2>2
  <1>5. ASSUME NEW id \in Ids, SetRowMode(id) \/ HandleKill(id) \/ CommitRename(id)
        PROVE  FoundIInv'
    <2>1. CASE SetRowMode(id)
      BY <1>2, <2>1 DEF SetRowMode
    <2>2. CASE HandleKill(id)
      BY <1>2, <2>2 DEF HandleKill
    <2>3. CASE CommitRename(id)
      BY <1>2, <2>3 DEF CommitRename
    <2> QED
      BY <1>5, <2>1, <2>2, <2>3
  <1>6. ASSUME NEW id \in Ids, OthersAct(id)
        PROVE  FoundIInv'
    <2>1. \E list, closed : SetRegistry(list, closed)
      BY <1>6 DEF OthersAct, Created, Destroyed, Renamed
    <2>2. page' = page /\ requests' = requests
      BY <1>6 DEF OthersAct
    <2> QED
      BY <1>0, <2>1, <2>2, SetRegistryFacts, SamePage
  <1>7. ASSUME NEW r \in requests, BrokerAnswers(r)
        PROVE  FoundIInv'
    <2>0. page' = page /\ RequestShape(r)
      BY <1>0, <1>7 DEF BrokerAnswers
    <2>1. ASSUME NEW list, Answered(r, list)
          PROVE  \A q \in requests' : q \in requests \/
                    (RequestShape(q) /\ q.kind = r.kind /\ q.list = list)
      <3> DEFINE q == [r EXCEPT !.answered = TRUE, !.list = list]
      <3>1. RequestShape(q) /\ q.kind = r.kind /\ q.list = list
        BY <2>0 DEF RequestShape
      <3>2. requests' = (requests \ {r}) \cup {q}
        BY <2>1 DEF Answered
      <3> HIDE DEF q
      <3> QED
        BY <3>1, <3>2
    <2>2. CASE r.kind \in {"list", "count"} /\ Answered(r, registry) /\ UNCHANGED <<registry, flags>>
      <3>1. Missing(registry)' = Missing(registry)
        BY <2>0, <2>2 DEF Missing, OnView, IdsOf
      <3>2. \A q \in requests' : q \in requests \/ (RequestShape(q) /\ q.list = registry)
        BY <2>1, <2>2
      <3> QED
        BY <1>0, <2>0, <2>2, <3>1, <3>2, SamePage
    <2>3. ASSUME \E list, closed : SetRegistry(list, closed),
                 \A q \in requests' : q \in requests \/ (RequestShape(q) /\ q.kind # "list")
          PROVE  FoundIInv'
      <3>1. /\ flags' \in Flags /\ flags'.notFound = flags.notFound
            /\ flags.absent => flags'.absent
            /\ Missing(registry)' => flags'.absent
        BY <2>0, <2>3, SetRegistryFacts
      <3>2. \A q \in requests' : /\ RequestShape(q)
                                 /\ q \in requests \/ ~Telling(q)
        BY <1>0, <2>3 DEF Telling
      <3> QED
        BY <2>0, <3>1, <3>2, SamePage
    <2>4. CASE r.kind = "create" /\ Created(r.id) /\ Answered(r, <<>>)
      BY <2>1, <2>3, <2>4 DEF Created
    <2>5. CASE r.kind = "destroy" /\ Destroyed(r.id) /\ requests' = requests \ {r}
      BY <2>3, <2>5 DEF Destroyed
    <2>6. CASE r.kind = "rename" /\ Renamed(r.id, r.title) /\ Answered(r, <<>>)
      BY <2>1, <2>3, <2>6 DEF Renamed
    <2> QED
      BY <1>7, <2>2, <2>4, <2>5, <2>6 DEF BrokerAnswers
  <1>8. ASSUME NEW r \in requests, RequestFails(r)
        PROVE  FoundIInv'
    <2> DEFINE loading == flags.loading /\ ~EndsLoading(r)
    <2>1. /\ flags' = [flags EXCEPT !.loading = loading] /\ loading \in BOOLEAN
          /\ page' = page /\ registry' = registry /\ requests' = requests \ {r}
      BY <1>8 DEF RequestFails
    <2> HIDE DEF loading
    <2>2. flags' \in Flags /\ flags'.absent = flags.absent /\ flags'.notFound = flags.notFound
      BY <1>0, <2>1 DEF Flags
    <2>3. Missing(registry)' = Missing(registry)
      BY <2>1 DEF Missing, OnView, IdsOf
    <2> QED
      BY <1>0, <2>1, <2>2, <2>3, SamePage
  \* The answer that tells was taken for this page: the invariant says it is right.
  <1>9. ASSUME NEW r \in requests, ListAnswered(r)
        PROVE  FoundIInv'
    <2> DEFINE loading == flags.loading /\ ~EndsLoading(r)
               notFound == flags.notFound \/ (OnView /\ TellsNotFound(r))
               told == flags.told /\ ~notFound
    <2>1. page' = page /\ registry' = registry /\ requests' = requests \ {r}
      BY <1>9 DEF ListAnswered
    <2>2. Missing(registry)' = Missing(registry)
      BY <2>1 DEF Missing, OnView, IdsOf
    <2>3. CASE flags' = flags
      BY <1>2, <2>1, <2>3, <1>0, <2>2, SamePage
    <2>4. CASE /\ Applies(r)
               /\ flags' = [flags EXCEPT !.loading = loading, !.notFound = notFound, !.told = told]
      <3>1. notFound => flags.notFound \/ flags.absent
        <4>1. r.kind = "list" /\ r.answered /\ r.current
          BY <1>9, <2>4 DEF ListAnswered, Gets, Applies
        <4> QED
          BY <4>1 DEF TellsNotFound, FoundIInv, AnswersOK, Telling, Missing
      <3>2. {loading, notFound, told} \subseteq BOOLEAN
        OBVIOUS
      <3> HIDE DEF loading, notFound, told
      <3>3. flags' = [loading |-> loading, notFound |-> notFound, told |-> told,
                      absent |-> flags.absent]
        BY <1>0, <2>4 DEF Flags
      <3>4. flags' \in Flags
        BY <1>0, <3>2, <3>3 DEF Flags
      <3> QED
        BY <1>0, <2>1, <2>2, <3>1, <3>3, <3>4, SamePage
    <2>5. IF Applies(r)
          THEN flags' = [flags EXCEPT !.loading = loading, !.notFound = notFound, !.told = told]
          ELSE flags' = flags
      BY <1>9 DEF ListAnswered
    <2> QED
      BY <2>3, <2>4, <2>5
  <1>10. ASSUME NEW r \in requests, CountAnswered(r) \/ CreateAnswered(r) \/ RenameAnswered(r)
         PROVE  FoundIInv'
    <2>1. CASE CountAnswered(r)
      <3> DEFINE q == Request("create", Len(r.list) + 1, 0, FALSE)
                 p == [q EXCEPT !.current = FALSE]
      <3>1. RequestShape(p) /\ p.kind = "create"
        <4>1. RequestShape(q) /\ q.kind = "create"
          BY DEF Request, RequestShape
        <4> HIDE DEF q
        <4> QED
          BY <4>1 DEF RequestShape
      <3>2. requests' = (requests \ {r}) \cup {p} /\ UNCHANGED <<registry, pageVars>>
        BY <2>1 DEF CountAnswered
      <3> HIDE DEF q, p
      <3> QED
        BY <1>1, <3>1, <3>2 DEF Telling, pageVars
    <2>2. CASE CreateAnswered(r)
      BY <1>1, <2>2 DEF CreateAnswered
    <2>3. CASE RenameAnswered(r)
      BY <1>1, <2>3 DEF RenameAnswered
    <2> QED
      BY <1>10, <2>1, <2>2, <2>3
  <1>11. CASE UNCHANGED workspaceVars
    BY <1>1, <1>11 DEF workspaceVars, pageVars
  <1> QED
    BY <1>3, <1>4, <1>5, <1>6, <1>7, <1>8, <1>9, <1>10, <1>11 DEF WorkspaceNext, AnswerTaken

\* A page says that its terminal does not exist only if the broker had no such
\* terminal at some time since the page was opened, whatever requests overlap,
\* fail and are answered out of order, and whatever pages were there before.
THEOREM NotFoundHolds == WorkspaceSpec => []NotFoundIsReal
  <1>1. FoundIInv => NotFoundIsReal
    BY DEF FoundIInv
  <1> QED
    BY <1>1, FoundInit, FoundStep, PTL DEF WorkspaceSpec
============================================================================
