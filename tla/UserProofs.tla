-------------------------- MODULE UserProofs --------------------------
(*****************************************************************************)
(* What users meet at the API server, for any accounts, requests, writers    *)
(* and faults: ended sessions stay ended (Sessions), answers hold together   *)
(* (Reads), accounts are kept as they were written (Accounts), and lists are *)
(* followed to their last page (Lists).                                      *)
(*****************************************************************************)
EXTENDS ApiParts, FiniteSetTheorems, SequenceTheorems, TLAPS

(* Sessions: every token that was issued is gone (blacklisted or expired), on *)
(* its way to the browser, in the cookie, or loose; and what a request in     *)
(* flight was sent with is gone once the request was served.                  *)

Gone(id) == id \in blacklist \/ id \in expired

Live(id) ==
  \/ id = cookie
  \/ id \in loose
  \/ \E r \in Tab : new[r] = id /\ tabAt[r] \in {"login", "refreshed"}

SessionsTyped ==
  /\ issued \in Nat /\ cookie \in Nat
  /\ blacklist \subseteq SE!Issued /\ expired \subseteq SE!Issued
  /\ spent \subseteq SE!Issued /\ shared \subseteq SE!Issued
  /\ overlapped \in BOOLEAN /\ relogged \in BOOLEAN
  /\ tabAt \in [Tab -> {"idle", "login", "refresh", "logout", "refreshed", "loggedOut"}]
  /\ token \in [Tab -> Nat] /\ new \in [Tab -> Nat]
  /\ out \in BOOLEAN
  /\ cookie # SE!NoToken => cookie \in SE!Issued
  /\ out => cookie = SE!NoToken

RequestsCarry ==
  \A r \in Tab :
    /\ tabAt[r] \in {"refresh", "logout"} => token[r] \in SE!Issued
    /\ tabAt[r] \in {"refreshed", "loggedOut"} => token[r] = SE!NoToken \/ Gone(token[r])
    /\ tabAt[r] = "login" => token[r] = SE!NoToken
    /\ tabAt[r] = "loggedOut" => new[r] = SE!NoToken
    /\ tabAt[r] \in {"login", "refreshed"} => new[r] \in SE!Issued

\* A second request that spends a token was under way with the first.
UsedTogether ==
  /\ doubled \subseteq shared
  /\ \A r \in Tab : tabAt[r] \in {"refresh", "logout"} /\ token[r] \in spent => token[r] \in shared
  /\ \A r, q \in Tab :
       r # q /\ tabAt[r] \in {"refresh", "logout"} /\ tabAt[q] \in {"refresh", "logout"} /\ token[r] = token[q]
         => token[r] \in shared

\* One request at a time was sent with the cookie that its answer replaces.
OneByOne ==
  ~overlapped =>
    /\ \A r, q \in Tab : tabAt[r] # "idle" /\ tabAt[q] # "idle" => r = q
    /\ \A r \in Tab :
         /\ tabAt[r] \in {"refresh", "logout", "refreshed", "loggedOut"} => token[r] = cookie
         /\ tabAt[r] = "login" /\ ~relogged => cookie = SE!NoToken \/ Gone(cookie)
    /\ ~relogged /\ lost = 0 => \A id \in loose : Gone(id)

SessionsInv ==
  /\ SessionsTyped /\ RequestsCarry
  /\ lost \in Nat /\ loose \subseteq SE!Issued
  /\ UsedTogether /\ OneByOne
  /\ \A id \in SE!Issued : Gone(id) \/ Live(id)
  /\ \A id \in spent : Gone(id)

LEMMA SessionsInit == SE!Init => SessionsInv
<1> SUFFICES ASSUME SE!Init PROVE SessionsInv
  OBVIOUS
<1> USE DEF SE!Init, SE!Issued, SE!NoToken, Gone, Live
<1>1. SessionsTyped
  BY DEF SessionsTyped
<1>2. RequestsCarry
  BY DEF RequestsCarry
<1>3. lost \in Nat /\ loose \subseteq SE!Issued
  OBVIOUS
<1>4. UsedTogether
  BY DEF UsedTogether
<1>5. OneByOne
  BY DEF OneByOne
<1>6. \A id \in SE!Issued : Gone(id) \/ Live(id)
  OBVIOUS
<1>7. \A id \in spent : Gone(id)
  OBVIOUS
<1> QED
  BY <1>1, <1>2, <1>3, <1>4, <1>5, <1>6, <1>7 DEF SessionsInv

LEMMA SessionsStep == SessionsInv /\ [SE!Next]_(SE!vars) => SessionsInv'
<1> SUFFICES ASSUME SessionsInv, [SE!Next]_(SE!vars)
             PROVE  SessionsInv'
  OBVIOUS
<1> USE DEF SessionsInv, SessionsTyped, RequestsCarry, Gone, Live, SE!Issued, SE!NoToken,
            SE!Goto, SE!tables, SE!browser, SE!history
<1>1. ASSUME NEW r \in Tab, SE!Login(r)
      PROVE  SessionsInv'
  <2> USE <1>1 DEF SE!Login, SE!LoginSuccess
  <2>1. SessionsTyped'
    OBVIOUS
  <2>2. RequestsCarry'
    OBVIOUS
  <2>3. (\A id \in SE!Issued : Gone(id) \/ Live(id))'
    OBVIOUS
  <2>4. UsedTogether'
    BY DEF UsedTogether, SE!Using
  <2>5. OneByOne'
    <3>1. token' = [token EXCEPT ![r] = SE!NoToken] /\ tabAt' = [tabAt EXCEPT ![r] = "login"]
      OBVIOUS
    <3>2. UNCHANGED <<cookie, loose, blacklist, expired, lost>>
      OBVIOUS
    <3>3. overlapped' = (overlapped \/ SE!InFlight # {}) /\ relogged' = (relogged \/ SE!Accepted(cookie))
      OBVIOUS
    <3>4. ASSUME ~overlapped' PROVE ~overlapped /\ \A q \in Tab : tabAt[q] = "idle"
      BY <3>3, <3>4 DEF SE!InFlight
    <3>5. ASSUME ~relogged' PROVE ~relogged /\ (cookie = SE!NoToken \/ Gone(cookie))
      BY <3>3, <3>5 DEF SE!Accepted
    <3>6. ASSUME ~overlapped' PROVE \A q, s \in Tab : tabAt'[q] # "idle" /\ tabAt'[s] # "idle" => q = s
      BY <3>1, <3>4, <3>6
    <3>7. ASSUME ~overlapped', NEW q \in Tab
          PROVE  /\ tabAt'[q] \in {"refresh", "logout", "refreshed", "loggedOut"} => token'[q] = cookie'
                 /\ tabAt'[q] = "login" /\ ~relogged' => cookie' = SE!NoToken \/ Gone(cookie)'
      BY <3>1, <3>2, <3>4, <3>5, <3>7
    <3>8. ASSUME ~overlapped', ~relogged', lost' = 0 PROVE \A id \in loose' : Gone(id)'
      BY <3>2, <3>4, <3>5, <3>8 DEF OneByOne
    <3> QED
      BY <3>6, <3>7, <3>8 DEF OneByOne
  <2>6. (lost \in Nat /\ loose \subseteq SE!Issued)'
    OBVIOUS
  <2> QED
    BY <2>1, <2>2, <2>3, <2>4, <2>5, <2>6
<1>2. ASSUME NEW r \in Tab, NEW request \in {"refresh", "logout"}, SE!Send(r, request)
      PROVE  SessionsInv'
  <2> USE <1>2 DEF SE!Send, SE!Accepted
  <2>1. SessionsTyped'
    OBVIOUS
  <2>2. RequestsCarry'
    OBVIOUS
  <2>3. (\A id \in SE!Issued : Gone(id) \/ Live(id))'
    OBVIOUS
  <2>4. UsedTogether'
    BY DEF UsedTogether, SE!Using
  <2>5. OneByOne'
    BY DEF OneByOne, SE!InFlight
  <2>6. (lost \in Nat /\ loose \subseteq SE!Issued)'
    OBVIOUS
  <2> QED
    BY <2>1, <2>2, <2>3, <2>4, <2>5, <2>6
<1>3. ASSUME NEW r \in Tab, SE!Refresh(r)
      PROVE  SessionsInv'
  <2> USE <1>3 DEF SE!Refresh, SE!Spend, SE!Blacklist
  <2>0. 1..issued \subseteq 1..issued' /\ issued' \in Nat /\ issued' \in 1..issued' /\ token[r] \in 1..issued
    OBVIOUS
  <2>1. SessionsTyped'
    BY <2>0
  <2>2. RequestsCarry'
    OBVIOUS
  <2>3. (\A id \in SE!Issued : Gone(id) \/ Live(id))'
    OBVIOUS
  <2>4. UsedTogether'
    BY DEF UsedTogether, SE!Using
  <2>5. OneByOne'
    BY DEF OneByOne, SE!InFlight
  <2>6. (lost \in Nat /\ loose \subseteq SE!Issued)'
    OBVIOUS
  <2> QED
    BY <2>1, <2>2, <2>3, <2>4, <2>5, <2>6
<1>4. ASSUME NEW r \in Tab, SE!Logout(r)
      PROVE  SessionsInv'
  <2> USE <1>4 DEF SE!Logout, SE!Blacklist
  <2>1. SessionsTyped'
    OBVIOUS
  <2>2. RequestsCarry'
    OBVIOUS
  <2>3. (\A id \in SE!Issued : Gone(id) \/ Live(id))'
    OBVIOUS
  <2>4. UsedTogether'
    BY DEF UsedTogether, SE!Using
  <2>5. OneByOne'
    BY DEF OneByOne, SE!InFlight
  <2>6. (lost \in Nat /\ loose \subseteq SE!Issued)'
    OBVIOUS
  <2> QED
    BY <2>1, <2>2, <2>3, <2>4, <2>5, <2>6
<1>5. ASSUME NEW r \in Tab, SE!LogoutWithout(r)
      PROVE  SessionsInv'
  <2> USE <1>5 DEF SE!LogoutWithout
  <2>1. SessionsTyped'
    OBVIOUS
  <2>2. RequestsCarry'
    OBVIOUS
  <2>3. (\A id \in SE!Issued : Gone(id) \/ Live(id))'
    OBVIOUS
  <2>4. UsedTogether'
    BY DEF UsedTogether, SE!Using
  <2>5. OneByOne'
    BY DEF OneByOne, SE!InFlight
  <2>6. (lost \in Nat /\ loose \subseteq SE!Issued)'
    OBVIOUS
  <2> QED
    BY <2>1, <2>2, <2>3, <2>4, <2>5, <2>6
<1>6. ASSUME NEW r \in Tab, SE!Answer(r)
      PROVE  SessionsInv'
  <2> USE <1>6 DEF SE!Answer, SE!Answering, SE!Free
  <2>1. SessionsTyped'
    OBVIOUS
  <2>2. RequestsCarry'
    OBVIOUS
  <2>3. (\A id \in SE!Issued : Gone(id) \/ Live(id))'
    OBVIOUS
  <2>4. UsedTogether'
    BY DEF UsedTogether, SE!Using
  <2>5. OneByOne'
    BY DEF OneByOne, SE!InFlight
  <2>6. (lost \in Nat /\ loose \subseteq SE!Issued)'
    OBVIOUS
  <2> QED
    BY <2>1, <2>2, <2>3, <2>4, <2>5, <2>6
<1>7. ASSUME NEW r \in Tab, SE!LoseAnswer(r)
      PROVE  SessionsInv'
  <2> USE <1>7 DEF SE!LoseAnswer, SE!Answering, SE!Free
  <2>1. SessionsTyped'
    OBVIOUS
  <2>2. RequestsCarry'
    OBVIOUS
  <2>3. (\A id \in SE!Issued : Gone(id) \/ Live(id))'
    OBVIOUS
  <2>4. UsedTogether'
    BY DEF UsedTogether, SE!Using
  <2>5. OneByOne'
    BY DEF OneByOne, SE!InFlight
  <2>6. (lost \in Nat /\ loose \subseteq SE!Issued)'
    <3>1. new[r] \in SE!Issued \/ new[r] = SE!NoToken
      OBVIOUS
    <3>2. loose' = loose \union ({new[r]} \ {SE!NoToken}) /\ lost' = lost + 1 /\ issued' = issued
      OBVIOUS
    <3>3. lost' \in Nat
      BY <3>2
    <3>4. loose' \subseteq SE!Issued
      BY <3>1, <3>2
    <3>5. SE!Issued' = SE!Issued
      BY <3>2
    <3> QED
      BY <3>3, <3>4, <3>5
  <2> QED
    BY <2>1, <2>2, <2>3, <2>4, <2>5, <2>6
<1>8. ASSUME NEW id \in SE!Issued, SE!Expire(id)
      PROVE  SessionsInv'
  BY <1>8 DEF SE!Expire, UsedTogether, OneByOne
<1>9. ASSUME SE!Flush
      PROVE  SessionsInv'
  BY <1>9 DEF SE!Flush, SE!Flushed, UsedTogether, OneByOne
<1>10. CASE UNCHANGED SE!vars
  BY <1>10 DEF SE!vars, UsedTogether, OneByOne
<1> QED
  BY <1>1, <1>2, <1>3, <1>4, <1>5, <1>6, <1>7, <1>8, <1>9, <1>10 DEF SE!Next

\* A refresh token that was spent is not accepted later, and two requests spend
\* one only if they were under way with it at the same time.  A logout ends all
\* sessions of a browser whose requests never overlapped, whose answers all arrived
\* and that did not log in over a valid session; otherwise what it misses are
\* tokens the browser no longer held (views/authentication.py,
\* users/serializers/user.py, users/tasks.py).
THEOREM SessionsAreEnded == SE!Spec => []SessionsEnd
<1>1. SessionsInv => SessionsEnd
  <2> SUFFICES ASSUME SessionsInv PROVE SessionsEnd
    OBVIOUS
  <2> USE DEF SE!Accepted, SE!InFlight, SE!NoToken, SE!Issued, SessionsInv, SessionsTyped, RequestsCarry, Gone, Live
  <2>1. SE!SpentStaysSpent
    BY DEF SE!SpentStaysSpent
  <2>2. SE!SpentOnce
    BY DEF SE!SpentOnce, UsedTogether
  <2>3. SE!SessionEnds
    BY DEF SE!SessionEnds
  <2>4. SE!LogoutEndsAll
    BY <2>3 DEF SE!LogoutEndsAll, SE!SessionEnds, OneByOne
  <2> QED
    BY <2>1, <2>2, <2>3, <2>4 DEF SessionsEnd
<1> QED
  BY <1>1, SessionsInit, SessionsStep, PTL DEF SE!Spec

-----------------------------------------------------------------------------
(* Reads: what is inserted between the queries of an answer is late, and what *)
(* is written while the pages of the news feed are read goes in front of what *)
(* was there: the place of an item in the list to come never falls.           *)

ReadTyped ==
  /\ performances \subseteq taskRows
  /\ \A t \in taskRows : reading.parent[t] \in taskRows \union {NoTask}
  /\ plans \in [Plan -> [created : Nat, started : Nat, ended : Nat]]
  /\ dated \subseteq 1..readChanges /\ readChanges \in Nat
  /\ newsPage \in Nat \ {0} /\ newsMoved \in BOOLEAN
  /\ readAt \in {"begin", "second", "slice", "created", "started", "managers", "done", "refused"}
  /\ readAt = "second" => reading.kind # "news"
  /\ reading.important => readAt \notin {"created", "started", "managers"}

\* The tasks that the first query of a graph or of performances did not see.
AnswerInv ==
  /\ readAt = "second" /\ reading.kind = "graph" =>
       /\ first \subseteq taskRows /\ taskRows \subseteq first \union newsLate
       /\ \A e \in RE!Edges(first) : e[1] \in first
  /\ readAt = "second" /\ reading.kind = "performances" =>
       \A t \in taskRows : reading.rank[t] \in first \/ t \in newsLate
  /\ RE!AnswersCohere

\* A plan ends after it was started, and starts after it was created.
DatesInv ==
  \A cp \in Plan : (plans[cp].started # 0 => plans[cp].created # 0) /\ (plans[cp].ended # 0 => plans[cp].started # 0)
HasItem(cp, news) == RE!InRange(plans[cp][news]) => \E i \in first : i.plan = cp /\ i.news = news
FeedInv ==
  /\ DatesInv
  /\ reading.kind = "news" /\ ~reading.important =>
       \A e \in first : e.news = "ended" =>
         /\ readAt \in {"created", "started", "managers", "slice"} => e.plan \in Plan /\ plans[e.plan].started # 0
         /\ readAt \in {"started", "managers", "slice"} => HasItem(e.plan, "created")
         /\ readAt \in {"managers", "slice"} => HasItem(e.plan, "started")

\* The list of the news as it is now, and the one a page will be cut from if
\* nothing more is written: what was read, and the queries still to come.
NewsList == IF reading.important THEN RE!Items("ended") ELSE RE!AllItems
ToRead ==
  CASE readAt = "begin" -> NewsList
    [] readAt = "created" -> RE!Items("created") \union RE!Items("started") \union RE!ManagerItems
    [] readAt = "started" -> RE!Items("started") \union RE!ManagerItems
    [] readAt = "managers" -> RE!ManagerItems
    [] OTHER -> {}
NewsToCome == ToRead \union (IF readAt = "begin" THEN {} ELSE first)
NewsPlace(items, w) == Cardinality({j \in items : RE!Newer(j, w)}) + 1
NewsInv ==
  reading.kind = "news" /\ ~newsMoved =>
    /\ readAt \in {"begin", "created", "started", "managers", "slice"} =>
         /\ newsWatch \subseteq NewsToCome /\ NewsToCome \subseteq NewsList
         /\ \A w \in newsWatch \ seen : RE!Bottom(newsPage) < NewsPlace(NewsToCome, w)
    /\ readAt = "done" => newsWatch \subseteq seen

ReadInv == ReadTyped /\ AnswerInv /\ FeedInv /\ NewsInv

-----------------------------------------------------------------------------
LEMMA ReadInit == RE!Init => ReadInv
<1> SUFFICES ASSUME RE!Init PROVE ReadInv
  OBVIOUS
<1> USE DEF RE!Init
<1>1. ReadTyped
  <2>1. RE!NoDates \in [created : Nat, started : Nat, ended : Nat]
    BY DEF RE!NoDates
  <2>2. plans \in [Plan -> [created : Nat, started : Nat, ended : Nat]]
    BY <2>1
  <2>3. performances \subseteq taskRows /\ dated \subseteq 1..readChanges /\ readChanges \in Nat
    OBVIOUS
  <2>4. newsPage \in Nat \ {0} /\ readAt = "begin"
    OBVIOUS
  <2>6. newsMoved \in BOOLEAN
    <3>1. newsMoved = FALSE
      OBVIOUS
    <3> HIDE DEF RE!Init
    <3> QED
      BY <3>1
  <2>5. \A t \in taskRows : reading.parent[t] \in taskRows \union {NoTask}
    OBVIOUS
  <2> HIDE DEF RE!Init
  <2> QED
    BY <2>2, <2>3, <2>4, <2>5, <2>6 DEF ReadTyped
<1>2. AnswerInv
  BY DEF AnswerInv, RE!AnswersCohere
<1>3. FeedInv
  BY DEF FeedInv, DatesInv, RE!NoDates
<1>4. NewsInv
  BY DEF NewsInv, NewsToCome, ToRead
<1> QED
  BY <1>1, <1>2, <1>3, <1>4 DEF ReadInv

LEMMA ReadTypedStep == ReadTyped /\ [RE!Next]_(RE!vars) => ReadTyped'
<1> SUFFICES ASSUME ReadTyped, [RE!Next]_(RE!vars) PROVE ReadTyped'
  OBVIOUS
<1> USE DEF ReadTyped, RE!reader, RE!writers, RE!database
<1>1. ASSUME NEW t \in Task, RE!InsertTask(t) PROVE ReadTyped'
  BY <1>1 DEF RE!InsertTask
<1>2. ASSUME NEW t \in Task, RE!InsertPerformance(t) PROVE ReadTyped'
  BY <1>2 DEF RE!InsertPerformance
<1>3. ASSUME NEW cp \in Plan, RE!CreatePlan(cp) PROVE ReadTyped'
  BY <1>3 DEF RE!CreatePlan, RE!SetDates, RE!Change, RE!NoDates, RE!Now
<1>4. ASSUME NEW cp \in Plan, RE!AdvancePlan(cp) PROVE ReadTyped'
  <2> DEFINE opened == [plans[cp] EXCEPT !.started = IF @ = 0 THEN readChanges + 1 ELSE @]
  <2>1. opened \in [created : Nat, started : Nat, ended : Nat]
    OBVIOUS
  <2>2. [opened EXCEPT !.ended = readChanges + 1] \in [created : Nat, started : Nat, ended : Nat]
    <3> HIDE DEF opened
    <3> QED
      BY <2>1
  <2>3. PICK dates \in [created : Nat, started : Nat, ended : Nat] : RE!SetDates(cp, dates)
    BY <1>4, <2>1, <2>2 DEF RE!AdvancePlan, RE!Now
  <2> QED
    BY <1>4, <2>3 DEF RE!AdvancePlan, RE!SetDates, RE!Change
<1>5. ASSUME NEW cp \in Plan, RE!ReopenPlan(cp) PROVE ReadTyped'
  BY <1>5 DEF RE!ReopenPlan, RE!SetDates, RE!Change
<1>6. CASE RE!InsertManager
  BY <1>6 DEF RE!InsertManager, RE!Change, RE!Now
<1>7. CASE RE!Graph
  BY <1>7 DEF RE!Graph, RE!ReadTasks, RE!ReadEdges
<1>8. CASE RE!ReadStatistics \/ RE!ReadPerformances
  BY <1>8 DEF RE!ReadStatistics, RE!ReadPerformances
<1>9. CASE RE!ReadNews
  BY <1>9 DEF RE!ReadNews
<1>10. CASE RE!ReadManagers
  BY <1>10 DEF RE!ReadManagers
<1>11. CASE RE!CutPage
  BY <1>11 DEF RE!CutPage
<1>12. CASE UNCHANGED RE!vars
  BY <1>12 DEF RE!vars
<1> QED
  BY <1>1, <1>2, <1>3, <1>4, <1>5, <1>6, <1>7, <1>8, <1>9, <1>10, <1>11, <1>12
     DEF RE!Next, RE!Reader

LEMMA AnswerStep ==
  ASSUME ReadTyped, AnswerInv, [RE!Next]_(RE!vars)
  PROVE  AnswerInv'
<1>0. /\ readAt \in {"begin", "second", "slice", "created", "started", "managers", "done", "refused"}
      /\ readAt = "second" => reading.kind # "news"
      /\ performances \subseteq taskRows
      /\ \A t \in taskRows : reading.parent[t] \in taskRows \union {NoTask}
  BY DEF ReadTyped
<1> USE DEF RE!reader, RE!writers, RE!database
<1>1. ASSUME NEW t \in Task, RE!InsertTask(t) PROVE AnswerInv'
  <2> USE <1>1 DEF RE!InsertTask
  <2>1. UNCHANGED <<reading, readAt, first, second, performances>> /\ taskRows' = taskRows \union {t}
        /\ newsLate' = newsLate \union {t}
    OBVIOUS
  <2>2. ASSUME readAt = "second", reading.kind = "graph"
        PROVE  /\ first \subseteq taskRows' /\ taskRows' \subseteq first \union newsLate'
               /\ \A e \in RE!Edges(first) : e[1] \in first
    BY <2>1, <2>2 DEF AnswerInv
  <2>3. ASSUME readAt = "second", reading.kind = "performances", NEW u \in taskRows'
        PROVE  reading.rank[u] \in first \/ u \in newsLate'
    BY <2>1, <2>3 DEF AnswerInv
  <2>4. RE!AnswersCohere'
    BY <2>1 DEF AnswerInv, RE!AnswersCohere, RE!Edges
  <2> QED
    BY <2>1, <2>2, <2>3, <2>4 DEF AnswerInv, RE!Edges
<1>2. ASSUME NEW t \in Task, RE!InsertPerformance(t) PROVE AnswerInv'
  BY <1>2 DEF RE!InsertPerformance, AnswerInv, RE!AnswersCohere, RE!Edges
<1>3. CASE RE!ReadTasks
  <2>1. /\ reading.kind = "graph" /\ UNCHANGED <<reading, taskRows>> /\ first' = taskRows
        /\ readAt' \in {"refused", "second"}
    BY <1>3 DEF RE!ReadTasks
  <2>2. (\A e \in RE!Edges(first) : e[1] \in first)'
    BY <1>0, <2>1 DEF RE!Edges
  <2> QED
    BY <2>1, <2>2 DEF AnswerInv, RE!AnswersCohere
<1>4. CASE RE!ReadEdges
  <2>1. /\ reading.kind = "graph" /\ readAt = "second" /\ readAt' = "done"
        /\ UNCHANGED <<reading, taskRows, first, newsLate>> /\ second' = RE!Edges(taskRows)
    BY <1>4 DEF RE!ReadEdges
  <2>2. first \subseteq taskRows /\ taskRows \subseteq first \union newsLate
        /\ \A e \in RE!Edges(first) : e[1] \in first
    BY <2>1 DEF AnswerInv
  <2>3. RE!Edges(first) \subseteq RE!Edges(taskRows)
    BY <2>2 DEF RE!Edges
  <2>4. \A e \in RE!Edges(taskRows) : e[2] \in taskRows
    BY DEF RE!Edges
  <2>5. RE!AnswersCohere'
    BY <2>1, <2>2, <2>3, <2>4 DEF RE!AnswersCohere, RE!Edges
  <2> QED
    BY <2>1, <2>5 DEF AnswerInv
<1>5. CASE RE!ReadStatistics
  BY <1>5 DEF RE!ReadStatistics, AnswerInv, RE!AnswersCohere
<1>6. CASE RE!ReadPerformances
  BY <1>0, <1>6 DEF RE!ReadPerformances, AnswerInv, RE!AnswersCohere
<1>7. CASE reading.kind = "news" /\ UNCHANGED reading
  BY <1>7 DEF AnswerInv, RE!AnswersCohere
<1>8. ASSUME \/ \E cp \in Plan : RE!CreatePlan(cp) \/ RE!AdvancePlan(cp) \/ RE!ReopenPlan(cp)
             \/ RE!InsertManager \/ RE!ReadNews \/ RE!ReadManagers \/ RE!CutPage
      PROVE  reading.kind = "news" /\ UNCHANGED reading
  BY <1>8 DEF RE!CreatePlan, RE!AdvancePlan, RE!ReopenPlan, RE!SetDates, RE!InsertManager, RE!ReadNews,
              RE!ReadManagers, RE!CutPage
<1>9. CASE UNCHANGED RE!vars
  BY <1>9 DEF RE!vars, AnswerInv, RE!AnswersCohere, RE!Edges
<1> QED
  BY <1>1, <1>2, <1>3, <1>4, <1>5, <1>6, <1>7, <1>8, <1>9 DEF RE!Next, RE!Reader, RE!Graph

-----------------------------------------------------------------------------
\* A date that is set is not changed, but the end of a plan that is reopened.
DatesKept ==
  \A cp \in Plan :
    /\ plans[cp].created # 0 => plans'[cp].created = plans[cp].created
    /\ plans[cp].started # 0 => plans'[cp].started = plans[cp].started
    /\ plans[cp].ended # 0 /\ ~newsMoved' => plans'[cp].ended = plans[cp].ended

LEMMA DatesStep ==
  ASSUME ReadTyped, ReadTyped', DatesInv, NEW cp \in Plan,
         RE!CreatePlan(cp) \/ RE!AdvancePlan(cp) \/ RE!ReopenPlan(cp)
  PROVE  DatesInv' /\ DatesKept
<1>0. \A cq \in Plan : plans[cq].created \in Nat /\ plans[cq].started \in Nat /\ plans[cq].ended \in Nat
  BY DEF ReadTyped
<1>1. readChanges \in Nat /\ plans \in [Plan -> [created : Nat, started : Nat, ended : Nat]]
  BY DEF ReadTyped
<1>2. PICK dates \in [created : Nat, started : Nat, ended : Nat] :
        /\ plans' = [plans EXCEPT ![cp] = dates]
        /\ plans[cp].created # 0 => dates.created = plans[cp].created
        /\ plans[cp].started # 0 => dates.started = plans[cp].started
        /\ plans[cp].ended # 0 /\ ~newsMoved' => dates.ended = plans[cp].ended
        /\ dates.started # 0 => dates.created # 0
        /\ dates.ended # 0 => dates.started # 0
  <2>1. CASE RE!CreatePlan(cp)
    <3> DEFINE dates == [RE!NoDates EXCEPT !.created = readChanges + 1]
    <3>1. plans' = [plans EXCEPT ![cp] = dates] /\ plans[cp].created = 0
      BY <2>1 DEF RE!CreatePlan, RE!SetDates, RE!Now
    <3>2. dates \in [created : Nat, started : Nat, ended : Nat] /\ dates.created # 0 /\ dates.ended = 0 /\ dates.started = 0
      BY <1>1 DEF RE!NoDates
    <3> HIDE DEF dates
    <3> QED
      BY <3>1, <3>2 DEF DatesInv
  <2>2. CASE RE!AdvancePlan(cp)
    <3> DEFINE opened == [plans[cp] EXCEPT !.started = IF @ = 0 THEN readChanges + 1 ELSE @]
               closed == [opened EXCEPT !.ended = readChanges + 1]
    <3>1. plans[cp].created # 0 /\ plans[cp].ended = 0
      BY <2>2 DEF RE!AdvancePlan
    <3>2. opened \in [created : Nat, started : Nat, ended : Nat] /\ opened.created = plans[cp].created
          /\ opened.started # 0 /\ opened.ended = plans[cp].ended
          /\ (plans[cp].started # 0 => opened.started = plans[cp].started)
      BY <1>1
    <3>3. closed \in [created : Nat, started : Nat, ended : Nat] /\ closed.created = opened.created
          /\ closed.started = opened.started
      <4> HIDE DEF opened
      <4> QED
        BY <1>1, <3>2
    <3>4. plans' = [plans EXCEPT ![cp] = opened] \/ plans' = [plans EXCEPT ![cp] = closed]
      BY <2>2 DEF RE!AdvancePlan, RE!SetDates, RE!Now
    <3> HIDE DEF opened, closed
    <3> QED
      BY <3>1, <3>2, <3>3, <3>4
  <2>3. CASE RE!ReopenPlan(cp)
    <3> DEFINE dates == [plans[cp] EXCEPT !.ended = 0]
    <3>1. plans' = [plans EXCEPT ![cp] = dates] /\ newsMoved'
      BY <2>3 DEF RE!ReopenPlan, RE!SetDates
    <3>2. dates \in [created : Nat, started : Nat, ended : Nat] /\ dates.created = plans[cp].created
          /\ dates.started = plans[cp].started /\ dates.ended = 0
      BY <1>1
    <3> HIDE DEF dates
    <3> QED
      BY <3>1, <3>2 DEF DatesInv
  <2> QED
    BY <2>1, <2>2, <2>3
<1>3. plans'[cp] = dates /\ \A cq \in Plan \ {cp} : plans'[cq] = plans[cq]
  BY <1>1, <1>2
<1>4. DatesKept
  BY <1>2, <1>3 DEF DatesKept
<1>5. DatesInv'
  <2> SUFFICES ASSUME NEW cq \in Plan
               PROVE  /\ plans'[cq].started # 0 => plans'[cq].created # 0
                      /\ plans'[cq].ended # 0 => plans'[cq].started # 0
    BY DEF DatesInv
  <2>1. CASE cq = cp
    BY <1>2, <1>3, <2>1
  <2>2. CASE cq # cp
    BY <1>3, <2>2 DEF DatesInv
  <2> QED
    BY <2>1, <2>2
<1> QED
  BY <1>4, <1>5

LEMMA FeedMove ==
  ASSUME FeedInv, DatesInv', DatesKept, UNCHANGED <<reading, readAt, first>>
  PROVE  FeedInv'
<1> SUFFICES ASSUME reading.kind = "news", ~reading.important, NEW e \in first, e.news = "ended"
             PROVE  /\ readAt \in {"created", "started", "managers", "slice"} => e.plan \in Plan /\ plans'[e.plan].started # 0
                    /\ readAt \in {"started", "managers", "slice"} => HasItem(e.plan, "created")'
                    /\ readAt \in {"managers", "slice"} => HasItem(e.plan, "started")'
  BY DEF FeedInv
<1>1. readAt \in {"created", "started", "managers", "slice"} => e.plan \in Plan /\ plans[e.plan].started # 0
  BY DEF FeedInv
<1>2. ASSUME readAt \in {"created", "started", "managers", "slice"}
      PROVE  plans'[e.plan].started = plans[e.plan].started /\ plans'[e.plan].created = plans[e.plan].created
  BY <1>1, <1>2 DEF DatesKept, FeedInv, DatesInv
<1>3. readAt \in {"started", "managers", "slice"} => HasItem(e.plan, "created")
  BY DEF FeedInv
<1>4. readAt \in {"managers", "slice"} => HasItem(e.plan, "started")
  BY DEF FeedInv
<1> QED
  BY <1>1, <1>2, <1>3, <1>4 DEF HasItem, RE!InRange

LEMMA FeedStep ==
  ASSUME ReadTyped, ReadTyped', FeedInv, [RE!Next]_(RE!vars)
  PROVE  FeedInv'
<1> USE DEF RE!reader, RE!writers, RE!database
<1>0. DatesInv
  BY DEF FeedInv
<1>1. ASSUME NEW t \in Task, RE!InsertTask(t) \/ RE!InsertPerformance(t) PROVE FeedInv'
  BY <1>0, <1>1 DEF RE!InsertTask, RE!InsertPerformance, FeedInv, RE!OfTasks, DatesInv
<1>2. ASSUME NEW cp \in Plan, RE!CreatePlan(cp) \/ RE!AdvancePlan(cp) \/ RE!ReopenPlan(cp) PROVE FeedInv'
  <2>1. UNCHANGED <<reading, readAt, first>>
    BY <1>2 DEF RE!CreatePlan, RE!AdvancePlan, RE!ReopenPlan, RE!SetDates
  <2> QED
    BY <1>0, <1>2, <2>1, DatesStep, FeedMove
<1>3. CASE UNCHANGED <<reading, readAt, first, plans>>
  <2>1. DatesInv' /\ DatesKept
    BY <1>0, <1>3 DEF DatesInv, DatesKept
  <2> QED
    BY <1>3, <2>1, FeedMove
<1>4. RE!InsertManager => UNCHANGED <<reading, readAt, first, plans>>
  BY DEF RE!InsertManager
<1>5. CASE RE!Graph \/ RE!ReadStatistics \/ RE!ReadPerformances
  <2>1. reading.kind # "news" /\ UNCHANGED <<reading, plans>>
    BY <1>5 DEF RE!Graph, RE!ReadTasks, RE!ReadEdges, RE!ReadStatistics, RE!ReadPerformances
  <2> QED
    BY <1>0, <2>1 DEF FeedInv, DatesInv
<1>6. CASE RE!ReadNews
  <2>1. UNCHANGED <<reading, plans>>
    BY <1>6 DEF RE!ReadNews
  <2>2. DatesInv'
    BY <1>0, <2>1 DEF DatesInv
  <2>3. CASE readAt = "begin"
    <3>1. first' = RE!Items("ended") /\ readAt' \in {"created", "slice"} /\ (~reading.important => readAt' = "created")
      BY <1>6, <2>3 DEF RE!ReadNews, RE!QueryOf
    <3>2. ASSUME NEW e \in RE!Items("ended")
          PROVE  e.plan \in Plan /\ plans[e.plan].started # 0
      BY <1>0 DEF RE!Items, RE!NewsItem, RE!InRange, DatesInv
    <3> QED
      BY <2>1, <2>2, <3>1, <3>2 DEF FeedInv
  <2>4. CASE readAt = "created"
    <3>1. first' = RE!Items("created") \union first /\ readAt' = "started"
      BY <1>6, <2>4 DEF RE!ReadNews, RE!QueryOf
    <3>2. ASSUME reading.kind = "news", ~reading.important, NEW e \in first', e.news = "ended"
          PROVE  e.plan \in Plan /\ plans[e.plan].started # 0 /\ HasItem(e.plan, "created")'
      <4>1. e \in first
        BY <3>1, <3>2 DEF RE!Items, RE!NewsItem
      <4>2. e.plan \in Plan /\ plans[e.plan].started # 0
        BY <2>4, <3>2, <4>1 DEF FeedInv
      <4>3. RE!InRange(plans[e.plan]["created"]) => RE!NewsItem(e.plan, "created") \in first'
        BY <3>1, <4>2 DEF RE!Items
      <4> QED
        BY <2>1, <4>2, <4>3 DEF HasItem, RE!NewsItem, RE!InRange
    <3> QED
      BY <2>1, <2>2, <3>1, <3>2 DEF FeedInv
  <2>5. CASE readAt = "started"
    <3>1. first' = RE!Items("started") \union first /\ readAt' = "managers"
      BY <1>6, <2>5 DEF RE!ReadNews, RE!QueryOf
    <3>2. ASSUME reading.kind = "news", ~reading.important, NEW e \in first', e.news = "ended"
          PROVE  e.plan \in Plan /\ plans[e.plan].started # 0
                 /\ HasItem(e.plan, "created")' /\ HasItem(e.plan, "started")'
      <4>1. e \in first
        BY <3>1, <3>2 DEF RE!Items, RE!NewsItem
      <4>2. e.plan \in Plan /\ plans[e.plan].started # 0 /\ HasItem(e.plan, "created")
        BY <2>5, <3>2, <4>1 DEF FeedInv
      <4>3. RE!InRange(plans[e.plan]["started"]) => RE!NewsItem(e.plan, "started") \in first'
        BY <3>1, <4>2 DEF RE!Items
      <4> QED
        BY <2>1, <3>1, <4>2, <4>3 DEF HasItem, RE!NewsItem, RE!InRange
    <3> QED
      BY <2>1, <2>2, <3>1, <3>2 DEF FeedInv
  <2> QED
    BY <1>6, <2>3, <2>4, <2>5 DEF RE!ReadNews
<1>7. CASE RE!ReadManagers
  <2>1. UNCHANGED <<reading, plans>> /\ first' = first \union RE!ManagerItems /\ readAt = "managers" /\ readAt' = "slice"
    BY <1>7 DEF RE!ReadManagers
  <2>2. DatesInv'
    BY <1>0, <2>1 DEF DatesInv
  <2>3. ASSUME reading.kind = "news", ~reading.important, NEW e \in first', e.news = "ended"
        PROVE  e.plan \in Plan /\ plans[e.plan].started # 0
               /\ HasItem(e.plan, "created")' /\ HasItem(e.plan, "started")'
    <3>1. e \in first
      BY <2>1, <2>3 DEF RE!ManagerItems
    <3>2. e.plan \in Plan /\ plans[e.plan].started # 0 /\ HasItem(e.plan, "created") /\ HasItem(e.plan, "started")
      BY <2>1, <2>3, <3>1 DEF FeedInv
    <3> QED
      BY <2>1, <3>2 DEF HasItem, RE!InRange
  <2> QED
    BY <2>1, <2>2, <2>3 DEF FeedInv
<1>8. CASE RE!CutPage
  <2>1. UNCHANGED <<reading, plans>> /\ readAt' \in {"begin", "done", "refused"}
    BY <1>8 DEF RE!CutPage
  <2> QED
    BY <1>0, <2>1 DEF FeedInv, DatesInv
<1>9. UNCHANGED RE!vars => UNCHANGED <<reading, readAt, first, plans>>
  BY DEF RE!vars
<1> QED
  BY <1>1, <1>2, <1>3, <1>4, <1>5, <1>6, <1>7, <1>8, <1>9 DEF RE!Next, RE!Reader

LEMMA FeedCoheres == ASSUME FeedInv PROVE RE!NewsCohere
BY DEF FeedInv, RE!NewsCohere, HasItem

-----------------------------------------------------------------------------
LEMMA FiniteImage ==
  ASSUME NEW S, IsFiniteSet(S), NEW U, NEW fn \in [S -> U]
  PROVE  IsFiniteSet({fn[j] : j \in S})
<1> DEFINE T == {fn[j] : j \in S}
<1>1. fn \in Surjection(S, T)
  <2>1. fn \in [S -> T]
    OBVIOUS
  <2>2. \A w \in T : \E j \in S : fn[j] = w
    OBVIOUS
  <2> QED
    BY <2>1, <2>2 DEF Surjection
<1> QED
  BY <1>1, FS_Surjection

LEMMA NewsFinite ==
  ASSUME ReadTyped
  PROVE  /\ IsFiniteSet(RE!Items("ended")) /\ IsFiniteSet(RE!Items("created"))
         /\ IsFiniteSet(RE!Items("started")) /\ IsFiniteSet(RE!ManagerItems)
         /\ IsFiniteSet(NewsList)
<1>1. ASSUME NEW news PROVE IsFiniteSet(RE!Items(news))
  <2> DEFINE fn == [cp \in Plan |-> RE!NewsItem(cp, news)]
             T == {fn[cp] : cp \in Plan}
  <2>1. IsFiniteSet(T)
    <3>1. fn \in [Plan -> {RE!NewsItem(cp, news) : cp \in Plan}]
      OBVIOUS
    <3> HIDE DEF fn
    <3> QED
      BY <3>1, FiniteImage, ReadsAssumption
  <2>2. RE!Items(news) \subseteq T
    BY DEF RE!Items
  <2> HIDE DEF T
  <2> QED
    BY <2>1, <2>2, FS_Subset
<1>2. IsFiniteSet(RE!ManagerItems)
  <2> DEFINE fn == [d \in dated |-> [plan |-> "none", news |-> "manager", date |-> d]]
             T == {fn[d] : d \in dated}
  <2>1. IsFiniteSet(dated)
    <3>1. IsFiniteSet(1..readChanges)
      BY FS_Interval DEF ReadTyped
    <3> QED
      BY <3>1, FS_Subset DEF ReadTyped
  <2>2. IsFiniteSet(T)
    <3>1. fn \in [dated -> {[plan |-> "none", news |-> "manager", date |-> d] : d \in dated}]
      OBVIOUS
    <3> HIDE DEF fn
    <3> QED
      BY <2>1, <3>1, FiniteImage
  <2>3. RE!ManagerItems \subseteq T
    BY DEF RE!ManagerItems
  <2> HIDE DEF T
  <2> QED
    BY <2>2, <2>3, FS_Subset
<1>3. IsFiniteSet(RE!AllItems)
  BY <1>1, <1>2, FS_Union DEF RE!AllItems
<1> QED
  BY <1>1, <1>2, <1>3 DEF NewsList

LEMMA NewsListFinite == ReadTyped => IsFiniteSet(NewsList)
BY NewsFinite

\* The instance has its own name for the operator of FiniteSets.
LEMMA SameCardinality == ASSUME NEW S PROVE RE!Cardinality(S) = Cardinality(S)
BY DEF RE!Cardinality, Cardinality

\* The place of an item does not fall when the list gets longer, and it is one
\* of the list.
LEMMA PlaceGrows ==
  ASSUME NEW S, NEW T, S \subseteq T, IsFiniteSet(T), NEW w
  PROVE  NewsPlace(S, w) \in Nat /\ NewsPlace(T, w) \in Nat /\ NewsPlace(S, w) <= NewsPlace(T, w)
<1> DEFINE A == {j \in S : RE!Newer(j, w)}
           B == {j \in T : RE!Newer(j, w)}
<1>1. B \subseteq T /\ A \subseteq B
  OBVIOUS
<1>2. NewsPlace(S, w) = Cardinality(A) + 1 /\ NewsPlace(T, w) = Cardinality(B) + 1
  BY DEF NewsPlace
<1> HIDE DEF A, B
<1>3. IsFiniteSet(B)
  BY <1>1, FS_Subset
<1>4. IsFiniteSet(A) /\ Cardinality(A) <= Cardinality(B)
  BY <1>1, <1>3, FS_Subset
<1>5. Cardinality(A) \in Nat /\ Cardinality(B) \in Nat
  BY <1>3, <1>4, FS_CardinalityType
<1> QED
  BY <1>2, <1>4, <1>5

LEMMA ItemFields ==
  ASSUME ReadTyped, NEW w \in NewsList
  PROVE  w.date \in Nat /\ w.news \in {"ended", "created", "started", "manager"}
<1>1. ASSUME NEW news \in {"ended", "created", "started"}, w \in RE!Items(news)
      PROVE  w.date \in Nat /\ w.news = news
  BY <1>1 DEF RE!Items, RE!NewsItem, ReadTyped
<1>2. ASSUME w \in RE!ManagerItems
      PROVE  w.date \in Nat /\ w.news = "manager"
  <2>1. PICK m \in dated : w = [plan |-> "none", news |-> "manager", date |-> m]
    BY <1>2 DEF RE!ManagerItems
  <2>2. m \in Nat
    BY DEF ReadTyped
  <2> QED
    BY <2>1, <2>2
<1> QED
  BY <1>1, <1>2 DEF NewsList, RE!AllItems

LEMMA PlaceInList ==
  ASSUME ReadTyped, NEW S, S \subseteq NewsList, NEW w \in S
  PROVE  /\ Cardinality(S) \in Nat /\ NewsPlace(S, w) \in Nat
         /\ 0 < NewsPlace(S, w) /\ NewsPlace(S, w) <= Cardinality(S)
<1>1. ~RE!Newer(w, w)
  <2>1. w.date \in Nat /\ w.news \in {"ended", "created", "started", "manager"}
    BY ItemFields
  <2>2. \E i \in 1..4 : RE!NewsOrder[i] = w.news
    BY <2>1 DEF RE!NewsOrder
  <2>3. RE!Rank(w) \in 1..4
    <3>1. DOMAIN RE!NewsOrder = 1..4
      BY DEF RE!NewsOrder
    <3> QED
      BY <2>2, <3>1 DEF RE!Rank
  <2> QED
    BY <2>1, <2>3 DEF RE!Newer
<1> DEFINE A == {j \in S : RE!Newer(j, w)}
<1>2. A \subseteq S \ {w}
  BY <1>1
<1>3. NewsPlace(S, w) = Cardinality(A) + 1
  BY DEF NewsPlace
<1> HIDE DEF A
<1>4. IsFiniteSet(S)
  BY NewsFinite, FS_Subset
<1>5. IsFiniteSet(S \ {w}) /\ Cardinality(S \ {w}) = Cardinality(S) - 1
  BY <1>4, FS_RemoveElement
<1>6. IsFiniteSet(A) /\ Cardinality(A) <= Cardinality(S \ {w})
  BY <1>2, <1>5, FS_Subset
<1>7. Cardinality(A) \in Nat /\ Cardinality(S) \in Nat
  BY <1>4, <1>6, FS_CardinalityType
<1> QED
  BY <1>3, <1>5, <1>6, <1>7

LEMMA ItemsSame ==
  ASSUME UNCHANGED <<reading, plans, dated>>
  PROVE  /\ RE!Items("ended")' = RE!Items("ended") /\ RE!Items("created")' = RE!Items("created")
         /\ RE!Items("started")' = RE!Items("started") /\ RE!ManagerItems' = RE!ManagerItems
         /\ NewsList' = NewsList
BY DEF RE!Items, RE!InRange, RE!NewsItem, RE!ManagerItems, RE!AllItems, NewsList

LEMMA ItemsKept ==
  ASSUME ReadTyped, DatesKept, ~newsMoved', UNCHANGED reading, dated \subseteq dated'
  PROVE  /\ RE!Items("ended") \subseteq RE!Items("ended")'
         /\ RE!Items("created") \subseteq RE!Items("created")'
         /\ RE!Items("started") \subseteq RE!Items("started")'
         /\ RE!ManagerItems \subseteq RE!ManagerItems'
<1>1. ASSUME NEW news \in {"ended", "created", "started"}, NEW cp \in Plan, RE!InRange(plans[cp][news])
      PROVE  plans'[cp][news] = plans[cp][news]
  BY <1>1 DEF RE!InRange, DatesKept
<1>2. ASSUME NEW news \in {"ended", "created", "started"}, NEW w \in RE!Items(news)
      PROVE  \E cp \in Plan : /\ (reading.after <= plans'[cp][news] /\ plans'[cp][news] < reading.before)
                              /\ plans'[cp][news] # 0
                              /\ w = [plan |-> cp, news |-> news, date |-> plans'[cp][news]]
  <2>1. PICK cp \in Plan : RE!InRange(plans[cp][news]) /\ w = RE!NewsItem(cp, news)
    BY <1>2 DEF RE!Items
  <2> QED
    BY <1>1, <2>1 DEF RE!InRange, RE!NewsItem
<1>3. RE!ManagerItems \subseteq RE!ManagerItems'
  BY DEF RE!ManagerItems, RE!InRange
<1> QED
  BY <1>2, <1>3 DEF RE!Items, RE!InRange, RE!NewsItem

LEMMA NewsWrite ==
  ASSUME ReadTyped, ReadTyped', NewsInv, ~newsMoved, ~newsMoved',
         UNCHANGED <<reading, readAt, first, newsPage, newsWatch, seen>>,
         RE!Items("ended") \subseteq RE!Items("ended")', RE!Items("created") \subseteq RE!Items("created")',
         RE!Items("started") \subseteq RE!Items("started")', RE!ManagerItems \subseteq RE!ManagerItems'
  PROVE  NewsInv'
<1> SUFFICES ASSUME reading.kind = "news", readAt \in {"begin", "created", "started", "managers", "slice"}
             PROVE  /\ newsWatch \subseteq NewsToCome' /\ NewsToCome' \subseteq NewsList'
                    /\ \A w \in newsWatch \ seen : RE!Bottom(newsPage) < NewsPlace(NewsToCome', w)
  BY DEF NewsInv, RE!Bottom, NewsPlace, RE!Newer, RE!Rank, RE!NewsOrder
<1>1. /\ newsWatch \subseteq NewsToCome /\ NewsToCome \subseteq NewsList
      /\ \A w \in newsWatch \ seen : RE!Bottom(newsPage) < NewsPlace(NewsToCome, w)
  BY DEF NewsInv
<1>2. NewsList \subseteq NewsList'
  BY DEF NewsList, RE!AllItems
<1>3. NewsToCome \subseteq NewsToCome'
  BY <1>2 DEF NewsToCome, ToRead
<1>4. ToRead' \subseteq NewsList'
  BY DEF ToRead, NewsList, RE!AllItems, ReadTyped
<1>5. NewsToCome' \subseteq NewsList'
  BY <1>1, <1>2, <1>4 DEF NewsToCome
<1>6. IsFiniteSet(NewsToCome')
  <2>1. IsFiniteSet(NewsList')
    <3>1. (ReadTyped => IsFiniteSet(NewsList))'
      BY NewsListFinite, PTL
    <3> QED
      BY <3>1
  <2> QED
    BY <1>5, <2>1, FS_Subset
<1>7. ASSUME NEW w \in newsWatch \ seen PROVE RE!Bottom(newsPage) < NewsPlace(NewsToCome', w)
  <2>1. NewsPlace(NewsToCome, w) \in Nat /\ NewsPlace(NewsToCome', w) \in Nat
        /\ NewsPlace(NewsToCome, w) <= NewsPlace(NewsToCome', w)
    BY <1>3, <1>6, PlaceGrows
  <2>2. RE!Bottom(newsPage) \in Int
    BY ReadsAssumption DEF RE!Bottom, ReadTyped
  <2> QED
    BY <1>1, <1>7, <2>1, <2>2
<1> QED
  BY <1>1, <1>3, <1>5, <1>7

LEMMA NewsStep ==
  ASSUME ReadTyped, ReadTyped', FeedInv, NewsInv, [RE!Next]_(RE!vars)
  PROVE  NewsInv'
<1> USE DEF RE!reader, RE!writers, RE!database
<1>0. readChanges \in Nat /\ newsPage \in Nat \ {0} /\ newsMoved \in BOOLEAN /\ PageSize \in Nat \ {0}
      /\ dated \subseteq 1..readChanges
  BY ReadsAssumption DEF ReadTyped
<1>1. CASE reading.kind # "news" /\ UNCHANGED reading
  BY <1>1 DEF NewsInv
<1>2. ASSUME \/ \E t \in Task : RE!InsertTask(t) \/ RE!InsertPerformance(t)
             \/ RE!Graph \/ RE!ReadStatistics \/ RE!ReadPerformances
      PROVE  reading.kind # "news" /\ UNCHANGED reading
  BY <1>2 DEF RE!InsertTask, RE!OfTasks, RE!InsertPerformance, RE!Graph, RE!ReadTasks, RE!ReadEdges,
              RE!ReadStatistics, RE!ReadPerformances
<1>3. ASSUME \/ \E cp \in Plan : RE!CreatePlan(cp) \/ RE!AdvancePlan(cp) \/ RE!ReopenPlan(cp)
             \/ RE!InsertManager
             \/ UNCHANGED RE!vars
      PROVE  NewsInv'
  <2>5. newsMoved' = newsMoved \/ newsMoved' = TRUE
    BY <1>3 DEF RE!CreatePlan, RE!AdvancePlan, RE!ReopenPlan, RE!InsertManager, RE!vars
  <2>1. UNCHANGED <<reading, readAt, first, newsPage, newsWatch, seen>> /\ dated \subseteq dated'
    BY <1>3 DEF RE!CreatePlan, RE!AdvancePlan, RE!ReopenPlan, RE!SetDates, RE!InsertManager, RE!vars
  <2>2. DatesKept
    <3>1. ASSUME NEW cp \in Plan, RE!CreatePlan(cp) \/ RE!AdvancePlan(cp) \/ RE!ReopenPlan(cp) PROVE DatesKept
      BY <3>1, DatesStep DEF FeedInv
    <3>2. CASE RE!InsertManager \/ UNCHANGED RE!vars
      BY <3>2 DEF RE!InsertManager, RE!vars, DatesKept
    <3> QED
      BY <1>3, <3>1, <3>2
  <2>3. CASE newsMoved'
    BY <2>3 DEF NewsInv
  <2>4. CASE ~newsMoved'
    <3>1. ~newsMoved
      BY <2>4, <2>5
    <3> QED
      BY <2>1, <2>2, <2>4, <3>1, ItemsKept, NewsWrite
  <2> QED
    BY <2>3, <2>4
<1>4. CASE RE!ReadNews
  <2>1. UNCHANGED <<reading, plans, dated, newsPage, seen>> /\ reading.kind = "news"
        /\ readAt \in {"begin", "created", "started"}
    BY <1>4 DEF RE!ReadNews
  <2>2. readAt' \in {"created", "started", "managers", "slice"}
    BY <1>4, <2>1 DEF RE!ReadNews
  <2>3. /\ RE!Items("ended")' = RE!Items("ended") /\ RE!Items("created")' = RE!Items("created")
        /\ RE!Items("started")' = RE!Items("started") /\ RE!ManagerItems' = RE!ManagerItems
        /\ NewsList' = NewsList
    BY <2>1, ItemsSame
  <2>4. NewsToCome' = NewsToCome
    <3>1. CASE readAt = "begin"
      <4>1. first' = RE!Items("ended") /\ readAt' = IF reading.important THEN "slice" ELSE "created"
        BY <1>4, <3>1 DEF RE!ReadNews, RE!QueryOf
      <4> QED
        BY <2>1, <2>3, <3>1, <4>1 DEF NewsToCome, ToRead, NewsList, RE!AllItems
    <3>2. CASE readAt = "created"
      <4>1. first' = RE!Items("created") \union first /\ readAt' = "started"
        BY <1>4, <3>2 DEF RE!ReadNews, RE!QueryOf
      <4> QED
        BY <2>1, <2>3, <3>2, <4>1 DEF NewsToCome, ToRead
    <3>3. CASE readAt = "started"
      <4>1. first' = RE!Items("started") \union first /\ readAt' = "managers"
        BY <1>4, <3>3 DEF RE!ReadNews, RE!QueryOf
      <4> QED
        BY <2>1, <2>3, <3>3, <4>1 DEF NewsToCome, ToRead
    <3> QED
      BY <2>1, <3>1, <3>2, <3>3
  <2>5. CASE newsPage = 1 /\ readAt = "begin"
    <3>1. newsWatch' = NewsList
      BY <1>4, <2>5 DEF RE!ReadNews, NewsList
    <3>2. NewsToCome = NewsList
      BY <2>5 DEF NewsToCome, ToRead
    <3>3. ASSUME NEW w \in newsWatch' \ seen PROVE RE!Bottom(newsPage) < NewsPlace(NewsToCome, w)
      <4>1. 0 < NewsPlace(NewsToCome, w)
        BY <3>1, <3>2, <3>3, PlaceInList
      <4>2. RE!Bottom(newsPage) = 0
        BY <1>0, <2>5 DEF RE!Bottom
      <4> QED
        BY <4>1, <4>2
    <3> QED
      BY <2>1, <2>2, <2>3, <2>4, <3>1, <3>2, <3>3
         DEF NewsInv, RE!Bottom, NewsPlace, RE!Newer, RE!Rank, RE!NewsOrder
  <2>6. CASE ~(newsPage = 1 /\ readAt = "begin")
    <3>1. UNCHANGED newsWatch /\ (newsMoved' => newsMoved) /\ (newsMoved => newsMoved')
      BY <1>0, <1>4, <2>6 DEF RE!ReadNews
    <3> QED
      BY <2>1, <2>2, <2>3, <2>4, <3>1
         DEF NewsInv, RE!Bottom, NewsPlace, RE!Newer, RE!Rank, RE!NewsOrder
  <2> QED
    BY <2>5, <2>6
<1>5. CASE RE!ReadManagers
  <2>1. UNCHANGED <<reading, plans, dated, newsPage, newsWatch, seen, newsMoved>>
        /\ readAt = "managers" /\ readAt' = "slice" /\ first' = first \union RE!ManagerItems
    BY <1>5 DEF RE!ReadManagers
  <2>2. NewsList' = NewsList
    BY <2>1, ItemsSame
  <2>3. NewsToCome' = NewsToCome
    BY <2>1 DEF NewsToCome, ToRead
  <2> QED
    BY <2>1, <2>2, <2>3 DEF NewsInv, RE!Bottom, NewsPlace, RE!Newer, RE!Rank, RE!NewsOrder
<1>6. CASE RE!CutPage
  <2> DEFINE n == Cardinality(first)
  <2>1. UNCHANGED <<reading, plans, dated, newsWatch, newsMoved, first>> /\ reading.kind = "news" /\ readAt = "slice"
    BY <1>6 DEF RE!CutPage
  <2>2. CASE readAt' = "refused"
    BY <2>2 DEF NewsInv
  <2>3. CASE newsMoved
    BY <2>1, <2>3 DEF NewsInv
  <2>4. CASE readAt' # "refused" /\ ~newsMoved
    <3>1. seen' = seen \union RE!Newest(first, n) /\ newsPage' = newsPage + 1
          /\ readAt' = IF RE!HasNext(newsPage, n) THEN "begin" ELSE "done"
      <4>1. readAt' # "refused"
        BY <2>4
      <4> QED
        BY <1>6, <4>1, SameCardinality DEF RE!CutPage
    <3>2. NewsToCome = first
      BY <2>1 DEF NewsToCome, ToRead
    <3>3. newsWatch \subseteq first /\ first \subseteq NewsList
          /\ \A w \in newsWatch \ seen : RE!Bottom(newsPage) < NewsPlace(first, w)
      BY <2>1, <2>4, <3>2 DEF NewsInv
    <3>4. RE!Bottom(newsPage) \in Nat
      BY <1>0 DEF RE!Bottom
    <3>5. RE!Bottom(newsPage') = RE!Bottom(newsPage) + PageSize
      BY <1>0, <3>1 DEF RE!Bottom
    \* What is not on this page nor on an earlier one is below its end.
    <3>6. ASSUME NEW w \in newsWatch \ seen'
          PROVE  /\ n \in Nat /\ NewsPlace(first, w) \in Nat /\ NewsPlace(first, w) <= n
                 /\ RE!Top(newsPage, n) < NewsPlace(first, w)
      <4>1. w \in first /\ w \notin seen /\ w \notin RE!Newest(first, n)
        BY <3>1, <3>3, <3>6
      <4>2. n \in Nat /\ NewsPlace(first, w) \in Nat /\ NewsPlace(first, w) <= n
        BY <3>3, <4>1, PlaceInList
      <4>5. RE!Newest(first, n) =
              {j \in first : RE!Bottom(newsPage) < NewsPlace(first, j) /\ NewsPlace(first, j) <= RE!Top(newsPage, n)}
        BY SameCardinality DEF RE!Newest, NewsPlace
      <4>3. ~(NewsPlace(first, w) <= RE!Top(newsPage, n))
        BY <3>3, <3>6, <4>1, <4>5
      <4>4. RE!Top(newsPage, n) \in Int
        BY <1>0, <3>4, <4>2 DEF RE!Top
      <4> QED
        BY <4>2, <4>3, <4>4
    <3>7. CASE readAt' = "done"
      <4>1. ASSUME NEW w \in newsWatch \ seen' PROVE FALSE
        BY <1>0, <3>1, <3>4, <3>6, <3>7, <4>1 DEF RE!HasNext, RE!Top
      <4> QED
        BY <2>1, <3>7, <4>1 DEF NewsInv
    <3>8. CASE readAt' = "begin"
      <4>1. NewsList' = NewsList
        BY <2>1, ItemsSame
      <4>2. NewsToCome' = NewsList
        BY <3>8, <4>1 DEF NewsToCome, ToRead
      <4>3. ASSUME NEW w \in newsWatch \ seen' PROVE RE!Bottom(newsPage') < NewsPlace(NewsList, w)
        <5>1. NewsPlace(first, w) \in Nat /\ NewsPlace(NewsList, w) \in Nat
              /\ NewsPlace(first, w) <= NewsPlace(NewsList, w)
          BY <3>3, NewsFinite, PlaceGrows
        <5>2. RE!Bottom(newsPage') < NewsPlace(first, w)
          BY <1>0, <3>4, <3>5, <3>6, <4>3 DEF RE!Top
        <5> QED
          BY <1>0, <3>4, <3>5, <5>1, <5>2
      <4>4. newsWatch' \subseteq NewsList /\ RE!Bottom(newsPage)' = RE!Bottom(newsPage')
        BY <2>1, <3>3 DEF RE!Bottom
      <4> QED
        BY <2>1, <3>8, <4>1, <4>2, <4>3, <4>4
           DEF NewsInv, NewsPlace, RE!Newer, RE!Rank, RE!NewsOrder
    <3> QED
      BY <3>1, <3>7, <3>8
  <2> QED
    BY <2>2, <2>3, <2>4
<1> QED
  BY <1>1, <1>2, <1>3, <1>4, <1>5, <1>6 DEF RE!Next, RE!Reader

LEMMA NewsCompletes ==
  ASSUME NewsInv PROVE RE!NewsIsComplete
BY DEF NewsInv, RE!NewsIsComplete

\* The answer of a graph or of performances holds together, and the pages of the
\* news feed miss nothing that was there when it was begun (compute_plan_graph.py,
\* performance.py, newsfeed.py).
THEOREM AnswersHoldTogether == RE!Spec => []ReadsCohere
<1>1. ReadInv /\ [RE!Next]_(RE!vars) => ReadInv'
  BY ReadTypedStep, AnswerStep, FeedStep, NewsStep DEF ReadInv
<1>2. ReadInv => ReadsCohere
  BY FeedCoheres, NewsCompletes DEF ReadInv, AnswerInv, ReadsCohere
<1> QED
  BY <1>1, <1>2, ReadInit, PTL DEF RE!Spec

-----------------------------------------------------------------------------
(* Accounts: what a request holds of an account is what the rows have, unless  *)
(* the account was changed or deleted meanwhile, which the gaps record.        *)

UserRow == [there : BOOLEAN, id : Nat, password : Nat]
ChannelRow == [there : BOOLEAN, role : AC!Role, name : Channel \union {"none"}]
InfoRow == [there : BOOLEAN, subjects : SUBSET Subject, valid : BOOLEAN, token : Nat]
HeldRows == [name : User, user : UserRow, channel : ChannelRow, oidc : InfoRow]
Wanted == [password : Nat, role : AC!Role, name : Channel \union {"none"}, gone : SUBSET Nat]

\* The places at which a request holds the row of an account, and the others at
\* which it runs.
Holding == {"get", "put", "insert", "save", "info", "login", "exchange", "refresh", "next"}
Logged == {"login", "exchange", "refresh"}
Loose == {"first", "lines", "others"}

AccountsTyped ==
  /\ user \in [User -> UserRow] /\ channel \in [User -> ChannelRow] /\ oidc \in [User -> InfoRow]
  /\ held \in [AccountCall -> HeldRows] /\ wanted \in [User -> Wanted]
  /\ step \in [AccountCall -> Holding \union Loose \union {"new", "done", "failed"}]
  /\ accounts \in AC!Setting
  /\ drawn \in Nat /\ grants \subseteq 0..drawn
  /\ left \subseteq DOMAIN UserFile

KindOf(r) ==
  /\ step[r] # "new" => r \in accounts.asked
  /\ step[r] \in {"get", "put"} => Calls[r].kind \in {"role", "sync"}
  /\ step[r] = "save" => Calls[r].kind \in {"role", "password", "set", "sync"}
  /\ step[r] = "insert" => Calls[r].kind \in {"create", "approve", "login", "sync"}
  /\ step[r] \in {"first", "info", "login"} => Calls[r].kind = "login"
  /\ step[r] \in {"exchange", "refresh"} => Calls[r].kind = "api"
  /\ step[r] \in {"lines", "next", "others"} => Calls[r].kind = "sync"
  /\ step[r] \in Holding /\ Calls[r].kind = "sync" => held[r].name \in DOMAIN UserFile
  /\ step[r] \in Holding => held[r].user.there
  /\ step[r] \in Loose => ~held[r].user.there
  /\ step[r] \in {"login", "exchange", "refresh"} => held[r].oidc.there
KindsInv == \A r \in AccountCall : KindOf(r)

\* The numbers that were drawn; the rows of a channel and of OpenID Connect refer
\* to the row of a user.
RowNumbers(u) ==
  /\ user[u].id \in 0..drawn
  /\ user[u].there => user[u].id # 0
  /\ ~user[u].there => user[u].id = 0
  /\ wanted[u].gone \subseteq 1..drawn
  /\ oidc[u].token \in 0..drawn
  /\ channel[u].there \/ oidc[u].there => user[u].there
  /\ ~oidc[u].there => oidc[u].subjects = {} /\ oidc[u].token = 0
HeldNumbers(r) == step[r] \in Holding => held[r].user.id \in 1..drawn /\ held[r].oidc.token \in 0..drawn
NumbersInv == (\A u \in User : RowNumbers(u)) /\ (\A r \in AccountCall : HeldNumbers(r))

Settled(u) == <<u, "deleted">> \notin overlaps
HoldsRow(r, u) == step[r] \in Holding /\ held[r].name = u

\* As long as no account was deleted while it was held, what is held is there.
HeldInv ==
  \A u \in User : \A r \in AccountCall : HoldsRow(r, u) /\ Settled(u) =>
    /\ user[u].there
    /\ user[u].id = held[r].user.id

Changes(r) == Calls[r].kind = "role" /\ step[r] \in {"get", "put", "save"}
PasswordInv(u) ==
  Settled(u) /\ <<u, "password">> \notin overlaps =>
    /\ user[u].there => user[u].password = wanted[u].password
    /\ \A r \in AccountCall : HoldsRow(r, u) /\ Changes(r) => held[r].user.password = wanted[u].password
ChannelInv(u) ==
  Settled(u) /\ <<u, "channel">> \notin overlaps =>
    /\ channel[u].there => channel[u].role = wanted[u].role /\ channel[u].name = wanted[u].name
    /\ \A r \in AccountCall : HoldsRow(r, u) /\ step[r] = "put" =>
         /\ channel[u].there
         /\ held[r].channel.role = wanted[u].role /\ held[r].channel.name = wanted[u].name
AnswersInv ==
  /\ \A u \in User : PasswordInv(u) /\ ChannelInv(u)
  /\ AC!DeletedStayOut

\* The first logins of a subject, until the account is theirs.
Entering(r) == step[r] \in {"first", "insert", "info"} /\ Calls[r].kind = "login"
Twice(s) == <<s, "twice">> \in overlaps
\* A request that logs in knows the subjects, one that is entering finds none.
InfoIsHeld ==
  \A u \in User : \A r \in AccountCall : Settled(u) /\ HoldsRow(r, u) =>
    /\ step[r] \in Logged => oidc[u].there /\ oidc[u].subjects = held[r].oidc.subjects
    /\ Entering(r) => ~oidc[u].there
OneEnters ==
  \A r \in AccountCall : \A ro \in AccountCall \ {r} : Entering(r) /\ Entering(ro) =>
    /\ Calls[r].subject = Calls[ro].subject => Twice(Calls[r].subject)
    /\ step[r] # "first" /\ step[ro] # "first" /\ held[r].name = held[ro].name =>
         held[r].user.id # held[ro].user.id
EntersOnce ==
  \A r \in AccountCall : \A u \in User :
    Entering(r) /\ Settled(u) /\ Calls[r].subject \in oidc[u].subjects => Twice(Calls[r].subject)
OneAccount ==
  \A sub \in Subject : \A u \in User : \A w \in User \ {u} :
    Settled(u) /\ Settled(w) /\ sub \in oidc[u].subjects /\ sub \in oidc[w].subjects => Twice(sub)
EnteringInv == InfoIsHeld /\ OneEnters /\ EntersOnce /\ OneAccount

\* Each refresh token is in one place; the one of a row is good, or a request has
\* used it and has the next one.
Renews(r, u) ==
  /\ step[r] = "refresh" /\ held[r].name = u
  /\ user[u].there
  /\ user[u].id = held[r].user.id
TokenIsGood(u) ==
  oidc[u].token # 0 =>
    \/ oidc[u].token \in grants
    \/ <<u, "lost">> \in overlaps
    \/ <<u, "revoked">> \in overlaps
    \/ \E r \in AccountCall : Renews(r, u)
Differs(u) == \A w \in User \ {u} : oidc[u].token = oidc[w].token => oidc[u].token = 0
ExchangesIts(r) ==
  step[r] = "exchange" =>
    /\ held[r].oidc.token # 0
    /\ \A u \in User : oidc[u].token = held[r].oidc.token => held[r].name = u /\ user[u].id = held[r].user.id
HasTheNext(r) ==
  step[r] = "refresh" =>
    /\ held[r].oidc.token # 0
    /\ held[r].oidc.token \in grants
    /\ \A u \in User : oidc[u].token # held[r].oidc.token
    /\ \A ro \in AccountCall \ {r} : step[ro] \in {"exchange", "refresh"} =>
         held[ro].oidc.token # held[r].oidc.token
RefreshInv ==
  /\ \A u \in User : TokenIsGood(u) /\ Differs(u)
  /\ \A r \in AccountCall : ExchangesIts(r) /\ HasTheNext(r)

AccountsInv == AccountsTyped /\ KindsInv /\ NumbersInv /\ HeldInv /\ AnswersInv /\ EnteringInv /\ RefreshInv

-----------------------------------------------------------------------------
(* What an action does to what is read and held.                              *)

OthersKeep(r) == \A ro \in AccountCall \ {r} : step'[ro] = step[ro] /\ held'[ro] = held[ro]
AccountRowsKept == UNCHANGED <<user, channel, oidc, wanted>>
UserKeeps(w) == user'[w] = user[w] /\ channel'[w] = channel[w] /\ oidc'[w] = oidc[w] /\ wanted'[w] = wanted[w]
OthersOf(u) == \A w \in User \ {u} : UserKeeps(w)
Marks(r, u, gap) ==
  /\ overlaps \subseteq overlaps'
  /\ \A ro \in AccountCall \ {r} : HoldsRow(ro, u) => <<u, gap>> \in overlaps'
DrawsNext == drawn' = drawn + 1

Stays == UNCHANGED <<user, channel, oidc, wanted, drawn, grants, overlaps, step, held>>
Ends(r) ==
  /\ OthersKeep(r) /\ AccountRowsKept /\ overlaps \subseteq overlaps' /\ drawn <= drawn' /\ grants \subseteq grants'
  /\ step'[r] \notin Holding \union {"first"}
  /\ step[r] = "refresh" => <<held[r].name, "lost">> \in overlaps' \/ ~AC!CanRefer(r, held[r].name)
ReadsRows(r, u) ==
  /\ OthersKeep(r) /\ AccountRowsKept /\ UNCHANGED <<drawn, grants, overlaps>>
  /\ step[r] \in {"new", "lines"} \/ (step[r] = "insert" /\ Calls[r].kind = "sync")
  /\ step'[r] \in {"get", "insert", "save", "login", "exchange"}
  /\ step'[r] = "insert" => Calls[r].kind # "login"
  /\ user[u].there
  /\ held'[r].name = u /\ held'[r].user = user[u] /\ held'[r].oidc = oidc[u]
  /\ step'[r] = "exchange" => oidc[u].token # 0
ReadsChannel(r) ==
  /\ OthersKeep(r) /\ AccountRowsKept /\ UNCHANGED <<drawn, grants, overlaps>>
  /\ step[r] = "get" /\ step'[r] = "put"
  /\ channel[held[r].name].there
  /\ held'[r].name = held[r].name /\ held'[r].user = held[r].user
  /\ held'[r].channel = channel[held[r].name] /\ held'[r].oidc = held[r].oidc
MakesUser(r, u) ==
  /\ OthersKeep(r) /\ OthersOf(u) /\ UNCHANGED <<channel, oidc, grants, overlaps>> /\ DrawsNext
  /\ step[r] \in {"new", "first", "lines"} /\ step'[r] \in {"insert", "info"}
  /\ Calls[r].kind = "login" => step[r] = "first"
  /\ ~user[u].there
  /\ user'[u].there /\ user'[u].id = drawn + 1 /\ user'[u].password = drawn + 1
  /\ wanted'[u].password = drawn + 1 /\ wanted'[u].gone = wanted[u].gone
  /\ wanted'[u].role = wanted[u].role /\ wanted'[u].name = wanted[u].name
  /\ held'[r].name = u /\ held'[r].user = user'[u] /\ held'[r].oidc = AC!NoInfo
PutsChannel(r, u) ==
  /\ OthersKeep(r) /\ OthersOf(u) /\ UNCHANGED <<user, oidc, grants, drawn, held>>
  /\ step[r] = "put" /\ held[r].name = u /\ step'[r] \in {"next", "save"}
  /\ AC!CanRefer(r, u) /\ Marks(r, u, "channel")
  /\ channel'[u].role = wanted'[u].role \/ (channel'[u].role = held[r].channel.role /\ wanted'[u].role = wanted[u].role)
  /\ channel'[u].name = wanted'[u].name \/ (channel'[u].name = held[r].channel.name /\ wanted'[u].name = wanted[u].name)
  /\ wanted'[u].password = wanted[u].password /\ wanted'[u].gone = wanted[u].gone
InsertsChannel(r, u) ==
  /\ OthersKeep(r) /\ OthersOf(u) /\ UNCHANGED <<user, oidc, grants, drawn, held, overlaps>>
  /\ step[r] = "insert" /\ held[r].name = u /\ step'[r] \in {"next", "info", "done"}
  /\ AC!CanRefer(r, u) /\ ~channel[u].there
  /\ channel'[u].role = wanted'[u].role /\ channel'[u].name = wanted'[u].name
  /\ wanted'[u].password = wanted[u].password /\ wanted'[u].gone = wanted[u].gone
SavesAsRead(r, u) ==
  /\ OthersKeep(r) /\ OthersOf(u) /\ UNCHANGED <<channel, oidc, wanted, grants, drawn, held, overlaps>>
  /\ step[r] = "save" /\ held[r].name = u /\ Calls[r].kind = "role" /\ step'[r] = "done"
  /\ AC!CanSaveUser(r, u) /\ user'[u] = held[r].user
SetsPassword(r, u) ==
  /\ OthersKeep(r) /\ OthersOf(u) /\ UNCHANGED <<channel, oidc, grants, held>> /\ DrawsNext
  /\ step[r] = "save" /\ held[r].name = u /\ Calls[r].kind # "role" /\ step'[r] \in {"get", "done"}
  /\ AC!CanSaveUser(r, u) /\ Marks(r, u, "password")
  /\ user'[u].there /\ user'[u].id = held[r].user.id /\ user'[u].password = drawn + 1
  /\ wanted'[u].password = drawn + 1 /\ wanted'[u].gone = wanted[u].gone
  /\ wanted'[u].role = wanted[u].role /\ wanted'[u].name = wanted[u].name
Deletes(r, u) ==
  /\ OthersKeep(r) /\ OthersOf(u) /\ UNCHANGED <<grants, drawn, held>>
  /\ step[r] \in {"new", "others"} /\ step'[r] \in {"done", "others"}
  /\ user[u].there /\ Marks(r, u, "deleted")
  /\ user'[u] = AC!NoUser /\ channel'[u] = AC!NoChannel /\ oidc'[u] = AC!NoInfo
  /\ wanted'[u].gone = wanted[u].gone \union {user[u].id}
Enters(r) ==
  /\ OthersKeep(r) /\ AccountRowsKept /\ UNCHANGED <<drawn, grants>> /\ overlaps \subseteq overlaps'
  /\ step[r] = "new" /\ step'[r] = "first" /\ Calls[r].kind = "login"
  /\ AC!AccountsOf(Calls[r].subject) = {}
  /\ \A ro \in AccountCall \ {r} : Entering(ro) /\ Calls[ro].subject = Calls[r].subject => Twice(Calls[r].subject)'
AddsInfo(r, u) ==
  /\ OthersKeep(r) /\ OthersOf(u) /\ UNCHANGED <<user, channel, wanted, grants, drawn, overlaps>>
  /\ step[r] = "info" /\ held[r].name = u /\ step'[r] = "login" /\ AC!CanRefer(r, u)
  /\ oidc'[u].there /\ oidc'[u].subjects = {Calls[r].subject} /\ oidc'[u].token = 0
  /\ held'[r].name = u /\ held'[r].user = held[r].user /\ held'[r].oidc = oidc'[u]
LogsIn(r, u) ==
  /\ OthersKeep(r) /\ OthersOf(u) /\ UNCHANGED <<user, channel, wanted, held, overlaps>> /\ DrawsNext
  /\ step[r] = "login" /\ held[r].name = u /\ step'[r] = "done" /\ AC!CanRefer(r, u)
  /\ oidc'[u].there /\ oidc'[u].subjects = held[r].oidc.subjects /\ oidc'[u].token = drawn + 1
  /\ grants' = grants \union {drawn + 1}
UsesToken(r) ==
  /\ OthersKeep(r) /\ AccountRowsKept /\ UNCHANGED overlaps /\ DrawsNext
  /\ step[r] = "exchange" /\ step'[r] = "refresh"
  /\ held'[r].name = held[r].name /\ held'[r].user = held[r].user
  /\ held'[r].oidc.subjects = held[r].oidc.subjects /\ held'[r].oidc.token = drawn + 1
  /\ grants' = (grants \ {held[r].oidc.token}) \union {drawn + 1}
Renewed(r, u) ==
  /\ OthersKeep(r) /\ OthersOf(u) /\ UNCHANGED <<user, channel, wanted, held, overlaps, grants, drawn>>
  /\ step[r] = "refresh" /\ held[r].name = u /\ step'[r] = "done" /\ AC!CanRefer(r, u)
  /\ oidc'[u] = held[r].oidc
Expires(u) ==
  /\ OthersOf(u) /\ UNCHANGED <<user, channel, wanted, held, step, overlaps, grants, drawn>>
  /\ oidc'[u].there = oidc[u].there /\ oidc'[u].subjects = oidc[u].subjects /\ oidc'[u].token = oidc[u].token
Revokes(u) ==
  /\ AccountRowsKept /\ UNCHANGED <<held, step, drawn>>
  /\ grants' = grants \ {oidc[u].token} /\ overlaps' = overlaps \union {<<u, "revoked">>}

Effect ==
  \/ Stays
  \/ \E r \in AccountCall : Ends(r) \/ ReadsChannel(r) \/ Enters(r) \/ UsesToken(r)
  \/ \E u \in User : Expires(u) \/ Revokes(u)
  \/ \E r \in AccountCall : \E u \in User :
       \/ ReadsRows(r, u) \/ MakesUser(r, u) \/ PutsChannel(r, u) \/ InsertsChannel(r, u)
       \/ SavesAsRead(r, u) \/ SetsPassword(r, u) \/ Deletes(r, u)
       \/ AddsInfo(r, u) \/ LogsIn(r, u) \/ Renewed(r, u)

-----------------------------------------------------------------------------
(* The actions have these effects.                                            *)

LEMMA KindsMove ==
  ASSUME AccountsTyped, KindsInv, UNCHANGED accounts, NEW r \in AccountCall, OthersKeep(r), KindOf(r)'
  PROVE  KindsInv'
<1>1. \A ro \in AccountCall \ {r} : KindOf(ro) BY DEF KindsInv
<1>2. \A ro \in AccountCall \ {r} : step'[ro] = step[ro] /\ held'[ro] = held[ro] BY DEF OthersKeep
<1>3. \A ro \in AccountCall \ {r} : KindOf(ro)' BY <1>1, <1>2 DEF KindOf
<1> QED  BY <1>3 DEF KindsInv

\* The rows that a request reads are rows.
LEMMA RowsTyped ==
  ASSUME AccountsTyped, NEW u \in User
  PROVE  AC!Rows(u) \in HeldRows /\ AC!Nothing(u) \in HeldRows
<1>1. user[u] \in UserRow /\ channel[u] \in ChannelRow /\ oidc[u] \in InfoRow BY DEF AccountsTyped
<1>2. AC!NoUser \in UserRow BY DEF AC!NoUser, UserRow
<1>3. AC!NoChannel \in ChannelRow BY AccountsAssumption DEF AC!NoChannel, ChannelRow, AC!Role
<1>4. AC!NoInfo \in InfoRow BY DEF AC!NoInfo, InfoRow
<1> QED  BY <1>1, <1>2, <1>3, <1>4 DEF AC!Rows, AC!Nothing, HeldRows

LEMMA ReadsEffect ==
  ASSUME AccountsTyped, KindsInv, NumbersInv, NEW r \in AccountCall,
         AC!ReadUser(r) \/ AC!CheckValid(r) \/ AC!ReadChannel(r)
  PROVE  AccountsTyped' /\ KindsInv' /\ UNCHANGED accounts
         /\ (Ends(r) \/ ReadsChannel(r) \/ \E u \in User : ReadsRows(r, u))
<1> USE DEF Holding, Loose
<1>0. Calls[r] \in AC!RequestType /\ held[r] \in HeldRows /\ KindOf(r)
      BY AccountsAssumption DEF AccountsTyped, KindsInv
<1>1. CASE AC!ReadUser(r)
  <2> DEFINE u == Calls[r].user
  <2>1. u \in User BY <1>0 DEF AC!RequestType
  <2>2. UNCHANGED <<user, channel, oidc, drawn, grants, accounts, left, wanted, overlaps>> /\ step[r] = "new"
        /\ Calls[r].kind \in {"role", "password", "approve", "set"} /\ r \in accounts.asked
        BY <1>1 DEF AC!ReadUser, AC!rowVars, AC!Is, AC!asked
  <2>3. CASE UNCHANGED held /\ AC!Fail(r)
    <3>1. step' = [step EXCEPT ![r] = "failed"] BY <2>2, <2>3 DEF AC!Fail, AC!Goto, AC!Is
    <3>2. AccountsTyped' BY <2>2, <2>3, <3>1 DEF AccountsTyped
    <3>3. OthersKeep(r) /\ step'[r] = "failed" BY <2>3, <3>1 DEF OthersKeep, AccountsTyped
    <3>4. KindOf(r)' BY <2>2, <2>3, <3>3 DEF KindOf
    <3> QED  BY <2>2, <3>2, <3>3, <3>4, KindsMove DEF Ends, AccountRowsKept, AccountsTyped
  <2>4. CASE ~(UNCHANGED held /\ AC!Fail(r))
    <3>1. PICK place \in {"get", "insert", "save"} :
            /\ step' = [step EXCEPT ![r] = place] /\ held' = [held EXCEPT ![r] = AC!Rows(u)]
            /\ place = "get" <=> Calls[r].kind = "role"
            /\ place = "insert" <=> Calls[r].kind = "approve"
            /\ user[u].there
          BY <1>1, <2>2, <2>4 DEF AC!ReadUser, AC!Goto, AC!Hold, AC!Is, AC!asked, AC!Found
    <3>2. AccountsTyped' BY <2>1, <2>2, <3>1, RowsTyped DEF AccountsTyped
    <3>3. OthersKeep(r) /\ step'[r] = place /\ held'[r] = AC!Rows(u) BY <3>1 DEF OthersKeep, AccountsTyped
    <3>4. KindOf(r)' BY <2>2, <3>1, <3>3 DEF KindOf, AC!Rows
    <3>5. ReadsRows(r, u)
          BY <2>2, <3>1, <3>3 DEF ReadsRows, AccountRowsKept, AC!Rows
    <3> QED  BY <2>1, <2>2, <3>2, <3>3, <3>4, <3>5, KindsMove
  <2> QED  BY <2>3, <2>4
<1>2. CASE AC!CheckValid(r)
  <2> DEFINE u == Calls[r].user
  <2>1. u \in User BY <1>0 DEF AC!RequestType
  <2>2. UNCHANGED <<user, channel, oidc, drawn, grants, accounts, left, wanted, overlaps>> /\ step[r] = "new"
        /\ Calls[r].kind = "api" /\ r \in accounts.asked /\ oidc[u].there
        BY <1>2 DEF AC!CheckValid, AC!rowVars, AC!Is, AC!asked
  <2>3. CASE ~(~oidc[u].valid /\ oidc[u].token # 0)
    <3>1. PICK place \in {"failed", "done"} : step' = [step EXCEPT ![r] = place]
          BY <1>2, <2>2, <2>3 DEF AC!CheckValid, AC!Fail, AC!Goto, AC!Is
    <3>2. UNCHANGED held BY <1>2, <2>3 DEF AC!CheckValid
    <3>3. AccountsTyped' BY <2>2, <3>1, <3>2 DEF AccountsTyped
    <3>4. OthersKeep(r) /\ step'[r] = place BY <3>1, <3>2 DEF OthersKeep, AccountsTyped
    <3>5. KindOf(r)' BY <2>2, <3>2, <3>4 DEF KindOf
    <3> QED  BY <2>2, <3>3, <3>4, <3>5, KindsMove DEF Ends, AccountRowsKept, AccountsTyped
  <2>4. CASE ~oidc[u].valid /\ oidc[u].token # 0
    <3>1. step' = [step EXCEPT ![r] = "exchange"] /\ held' = [held EXCEPT ![r] = AC!Rows(u)]
          BY <1>2, <2>4 DEF AC!CheckValid, AC!Goto, AC!Hold
    <3>2. AccountsTyped' BY <2>1, <2>2, <3>1, RowsTyped DEF AccountsTyped
    <3>3. OthersKeep(r) /\ step'[r] = "exchange" /\ held'[r] = AC!Rows(u)
          BY <3>1 DEF OthersKeep, AccountsTyped
    <3>4. user[u].there BY <2>1, <2>2 DEF NumbersInv, RowNumbers
    <3>5. KindOf(r)' BY <2>2, <3>3, <3>4 DEF KindOf, AC!Rows
    <3>6. ReadsRows(r, u) BY <2>2, <2>4, <3>3, <3>4 DEF ReadsRows, AccountRowsKept, AC!Rows
    <3> QED  BY <2>1, <2>2, <3>2, <3>3, <3>5, <3>6, KindsMove
  <2> QED  BY <2>3, <2>4
<1>3. CASE AC!ReadChannel(r)
  <2> DEFINE u == held[r].name
  <2>1. u \in User BY <1>0 DEF HeldRows
  <2>2. UNCHANGED <<user, channel, oidc, drawn, grants, accounts, left, wanted, overlaps>> /\ step[r] = "get"
        BY <1>3 DEF AC!ReadChannel, AC!rowVars
  <2>3. CASE ~channel[u].there
    <3>1. PICK place \in {"new", "failed"} : step' = [step EXCEPT ![r] = place]
          BY <1>3, <2>3 DEF AC!ReadChannel, AC!Fail, AC!Goto
    <3>2. UNCHANGED held BY <1>3, <2>3 DEF AC!ReadChannel
    <3>3. AccountsTyped' BY <2>2, <3>1, <3>2 DEF AccountsTyped
    <3>4. OthersKeep(r) /\ step'[r] = place BY <3>1, <3>2 DEF OthersKeep, AccountsTyped
    <3>5. KindOf(r)' BY <1>0, <2>2, <3>2, <3>4 DEF KindOf
    <3> QED  BY <2>2, <3>3, <3>4, <3>5, KindsMove DEF Ends, AccountRowsKept, AccountsTyped
  <2>4. CASE channel[u].there
    <3> DEFINE h == [held[r] EXCEPT !.channel = channel[u]]
    <3>1. step' = [step EXCEPT ![r] = "put"] /\ held' = [held EXCEPT ![r] = h]
          BY <1>3, <2>4 DEF AC!ReadChannel, AC!Goto, AC!Hold
    <3>2. h \in HeldRows /\ h.name = u /\ h.user = held[r].user /\ h.channel = channel[u]
          /\ h.oidc = held[r].oidc
          BY <1>0, <2>1 DEF HeldRows, AccountsTyped
    <3> HIDE DEF h
    <3>3. AccountsTyped' BY <2>2, <3>1, <3>2 DEF AccountsTyped
    <3>4. OthersKeep(r) /\ step'[r] = "put" /\ held'[r] = h BY <3>1 DEF OthersKeep, AccountsTyped
    <3>5. KindOf(r)' BY <1>0, <2>2, <3>2, <3>4 DEF KindOf
    <3>6. ReadsChannel(r) BY <2>2, <2>4, <3>2, <3>4 DEF ReadsChannel, AccountRowsKept
    <3> QED  BY <2>2, <3>3, <3>4, <3>5, <3>6, KindsMove
  <2> QED  BY <2>3, <2>4
<1> QED  BY <1>1, <1>2, <1>3

\* Nothing is written: the request fails, or goes on without an account.
LEMMA NothingWritten ==
  ASSUME AccountsTyped, KindsInv, NEW r \in AccountCall,
         UNCHANGED <<user, channel, oidc, wanted, accounts>>, overlaps \subseteq overlaps',
         drawn' \in Nat, drawn <= drawn', grants' \subseteq 0..drawn', grants \subseteq grants', left' \subseteq left,
         NEW place \in Loose \union {"new", "done", "failed"}, place # "first",
         step' = [step EXCEPT ![r] = place], place # "new" => r \in accounts.asked,
         place \in {"lines", "others"} => Calls[r].kind = "sync",
         NEW h \in HeldRows, held' = [held EXCEPT ![r] = h], place \in {"lines", "others"} => ~h.user.there,
         step[r] = "refresh" => <<held[r].name, "lost">> \in overlaps' \/ ~AC!CanRefer(r, held[r].name)
  PROVE  AccountsTyped' /\ KindsInv' /\ Ends(r)
<1> USE DEF Holding, Loose
<1>1. AccountsTyped' BY DEF AccountsTyped
<1>2. OthersKeep(r) /\ step'[r] = place /\ held'[r] = h BY DEF OthersKeep, AccountsTyped
<1>3. KindOf(r)' BY <1>2 DEF KindOf
<1> QED  BY <1>1, <1>2, <1>3, KindsMove DEF Ends, AccountRowsKept

LEMMA FailsWithNothing ==
  ASSUME AccountsTyped, KindsInv, NEW r \in AccountCall, r \in accounts.asked,
         UNCHANGED <<user, channel, oidc, wanted, accounts, held, drawn, grants, left>>,
         overlaps \subseteq overlaps', AC!Fail(r),
         step[r] = "refresh" => <<held[r].name, "lost">> \in overlaps' \/ ~AC!CanRefer(r, held[r].name)
  PROVE  AccountsTyped' /\ KindsInv' /\ Ends(r)
<1>1. PICK place \in {"new", "failed"} : step' = [step EXCEPT ![r] = place] BY DEF AC!Fail, AC!Goto
<1>2. held[r] \in HeldRows /\ held' = [held EXCEPT ![r] = held[r]] BY DEF AccountsTyped
<1>3. drawn' \in Nat /\ drawn <= drawn' /\ grants' \subseteq 0..drawn' /\ grants \subseteq grants' /\ left' \subseteq left
      BY DEF AccountsTyped
<1> QED  BY <1>1, <1>2, <1>3, NothingWritten

LEMMA RunningIsAsked ==
  ASSUME AccountsTyped, KindsInv, NEW r \in AccountCall, step[r] # "new"
  PROVE  r \in accounts.asked
BY DEF KindsInv, KindOf

LEMMA OverlapsMark ==
  ASSUME AccountsTyped, KindsInv, NEW r \in AccountCall, NEW u \in User, NEW gap, AC!Overlaps(r, u, gap)
  PROVE  Marks(r, u, gap)
<1>1. ASSUME NEW ro \in AccountCall \ {r}, HoldsRow(ro, u)
      PROVE  AC!HeldElsewhere(r, u)
      BY <1>1 DEF HoldsRow, Holding, KindsInv, KindOf, AC!HeldElsewhere, AC!asked, AC!Running
<1> QED  BY <1>1 DEF Marks, AC!Overlaps

LEMMA MakesUserEffect ==
  ASSUME AccountsTyped, KindsInv, NEW r \in AccountCall, r \in accounts.asked, NEW u \in User,
         AC!CreateUser(r, u), ~user[u].there, UNCHANGED <<channel, oidc, grants, accounts, left, overlaps>>,
         step[r] \in {"new", "first", "lines"}, NEW place \in {"insert", "info"},
         step' = [step EXCEPT ![r] = place],
         place = "insert" => Calls[r].kind \in {"create", "login", "sync"}, place = "info" => Calls[r].kind = "login",
         Calls[r].kind = "login" => step[r] = "first", Calls[r].kind = "sync" => u \in DOMAIN UserFile
  PROVE  AccountsTyped' /\ KindsInv' /\ MakesUser(r, u)
<1> USE DEF Holding, Loose
<1> DEFINE n == [there |-> TRUE, id |-> drawn + 1, password |-> drawn + 1]
           j == [AC!Nothing(u) EXCEPT !.user = n]
           k == [wanted[u] EXCEPT !.password = drawn + 1]
<1>1. n \in UserRow /\ n.there /\ n.id = drawn + 1 /\ n.password = drawn + 1 BY DEF UserRow, AccountsTyped
<1>2. wanted[u] \in Wanted BY DEF AccountsTyped
<1>0. drawn + 1 \in Nat BY DEF AccountsTyped
<1>3. k \in Wanted /\ k.password = drawn + 1 /\ k.role = wanted[u].role /\ k.name = wanted[u].name /\ k.gone = wanted[u].gone
  <2> DEFINE number == drawn + 1
  <2>1. number \in Nat /\ k = [wanted[u] EXCEPT !.password = number] BY <1>0
  <2> HIDE DEF k, number
  <2>2. k \in Wanted BY <1>2, <2>1 DEF Wanted
  <2>3. k.password = number /\ k.role = wanted[u].role /\ k.name = wanted[u].name /\ k.gone = wanted[u].gone
        BY <1>2, <2>1 DEF Wanted
  <2> QED  BY <2>2, <2>3 DEF number
<1>4. user' = [user EXCEPT ![u] = n] /\ held' = [held EXCEPT ![r] = j] /\ drawn' = drawn + 1
      BY DEF AC!CreateUser, AC!Hold, AC!Fresh
<1>5. wanted' = [wanted EXCEPT ![u] = k] BY DEF AC!CreateUser, AC!Fresh
<1> HIDE DEF n
<1>6. j \in HeldRows /\ j.name = u /\ j.user = n /\ j.oidc = AC!NoInfo
  <2>1. AC!Nothing(u) \in HeldRows BY RowsTyped
  <2>2. AC!Nothing(u).name = u /\ AC!Nothing(u).oidc = AC!NoInfo BY DEF AC!Nothing
  <2> QED  BY <1>1, <2>1, <2>2 DEF HeldRows
<1> HIDE DEF j, k
<1>7. AccountsTyped' BY <1>1, <1>3, <1>4, <1>5, <1>6 DEF AccountsTyped
<1>8. OthersKeep(r) /\ step'[r] = place /\ held'[r] = j BY <1>4 DEF OthersKeep, AccountsTyped
<1>9. OthersOf(u) /\ user'[u] = n /\ wanted'[u] = k BY <1>4, <1>5 DEF OthersOf, UserKeeps, AccountsTyped
<1>10. KindOf(r)' BY <1>1, <1>6, <1>8 DEF KindOf
<1>11. MakesUser(r, u) BY <1>1, <1>3, <1>4, <1>6, <1>8, <1>9 DEF MakesUser, DrawsNext
<1> QED  BY <1>7, <1>8, <1>10, <1>11, KindsMove

LEMMA DeletesEffect ==
  ASSUME AccountsTyped, KindsInv, NEW r \in AccountCall, r \in accounts.asked, NEW u \in User,
         AC!DeleteUser(r, u), user[u].there, UNCHANGED <<grants, drawn, held, accounts>>, left' = left,
         step[r] \in {"new", "others"}, NEW place \in {"done", "others"}, place = "others" => step[r] = "others",
         step' = [step EXCEPT ![r] = place]
  PROVE  AccountsTyped' /\ KindsInv' /\ Deletes(r, u)
<1> USE DEF Holding, Loose
<1> DEFINE k == [wanted[u] EXCEPT !.gone = wanted[u].gone \union {user[u].id}]
<1>1. AC!NoUser \in UserRow /\ AC!NoChannel \in ChannelRow /\ AC!NoInfo \in InfoRow
      BY RowsTyped DEF AC!Nothing, HeldRows
<1>2. wanted[u] \in Wanted /\ user[u] \in UserRow BY DEF AccountsTyped
<1>3. k \in Wanted /\ k.gone = wanted[u].gone \union {user[u].id} BY <1>2 DEF Wanted, UserRow
<1>4. /\ user' = [user EXCEPT ![u] = AC!NoUser] /\ channel' = [channel EXCEPT ![u] = AC!NoChannel]
      /\ oidc' = [oidc EXCEPT ![u] = AC!NoInfo] /\ wanted' = [wanted EXCEPT ![u] = k]
      /\ Marks(r, u, "deleted")
      BY OverlapsMark DEF AC!DeleteUser
<1> HIDE DEF k
<1>5. AccountsTyped' BY <1>1, <1>3, <1>4 DEF AccountsTyped
<1>6. OthersKeep(r) /\ step'[r] = place BY DEF OthersKeep, AccountsTyped
<1>7. OthersOf(u) /\ user'[u] = AC!NoUser /\ channel'[u] = AC!NoChannel /\ oidc'[u] = AC!NoInfo /\ wanted'[u] = k
      BY <1>4 DEF OthersOf, UserKeeps, AccountsTyped
<1>8. KindOf(r) BY DEF KindsInv
<1>9. KindOf(r)' BY <1>6, <1>8 DEF KindOf
<1>10. Deletes(r, u) BY <1>3, <1>4, <1>6, <1>7 DEF Deletes
<1> QED  BY <1>5, <1>6, <1>9, <1>10, KindsMove

LEMMA BeginsEffect ==
  ASSUME AccountsTyped, KindsInv, NumbersInv, NEW r \in AccountCall,
         AC!Create(r) \/ AC!Delete(r) \/ AC!FindUser(r) \/ AC!StartJob(r)
  PROVE  AccountsTyped' /\ KindsInv' /\ UNCHANGED accounts
         /\ (Ends(r) \/ Enters(r) \/ \E u \in User : ReadsRows(r, u) \/ MakesUser(r, u) \/ Deletes(r, u))
<1> USE DEF Holding, Loose
<1>0. Calls[r] \in AC!RequestType /\ held[r] \in HeldRows /\ KindOf(r)
      BY AccountsAssumption DEF AccountsTyped, KindsInv
<1>1. CASE AC!Create(r)
  <2> DEFINE u == Calls[r].user
  <2>1. u \in User BY <1>0 DEF AC!RequestType
  <2>2. UNCHANGED <<channel, oidc, grants, accounts, left, overlaps>> /\ step[r] = "new"
        /\ Calls[r].kind = "create" /\ r \in accounts.asked
        BY <1>1 DEF AC!Create, AC!Is, AC!asked
  <2>3. CASE user[u].there
    <3>1. AC!Fail(r) /\ UNCHANGED <<user, held, drawn, wanted>> BY <1>1, <2>3 DEF AC!Create
    <3> QED  BY <2>2, <3>1, FailsWithNothing
  <2>4. CASE ~user[u].there
    <3>1. AC!CreateUser(r, u) /\ step' = [step EXCEPT ![r] = "insert"] BY <1>1, <2>4 DEF AC!Create, AC!Goto
    <3> QED  BY <2>1, <2>2, <2>4, <3>1, MakesUserEffect
  <2> QED  BY <2>3, <2>4
<1>2. CASE AC!Delete(r)
  <2> DEFINE u == Calls[r].user
  <2>1. u \in User BY <1>0 DEF AC!RequestType
  <2>2. UNCHANGED <<grants, drawn, held, accounts, left>> /\ step[r] = "new" /\ r \in accounts.asked
        BY <1>2 DEF AC!Delete, AC!Is, AC!asked, AC!requestVars
  <2>3. CASE AC!Fail(r) /\ UNCHANGED <<AC!rowVars, wanted, overlaps>>
    <3>1. UNCHANGED <<user, channel, oidc, wanted, overlaps>> BY <2>3 DEF AC!rowVars
    <3> QED  BY <2>2, <2>3, <3>1, FailsWithNothing
  <2>4. CASE user[u].there /\ AC!DeleteUser(r, u) /\ step' = [step EXCEPT ![r] = "done"]
    BY <2>1, <2>2, <2>4, DeletesEffect
  <2> QED  BY <1>2, <2>3, <2>4 DEF AC!Delete, AC!Found, AC!Goto
<1>3. CASE AC!FindUser(r)
  <2> DEFINE e == Calls[r].subject
  <2>1. e \in Subject BY <1>0 DEF AC!RequestType
  <2>2. UNCHANGED <<user, channel, oidc, drawn, grants, accounts, left, wanted>> /\ step[r] = "new"
        /\ r \in accounts.asked /\ Calls[r].kind = "login"
        BY <1>3 DEF AC!FindUser, AC!Is, AC!asked, AC!rowVars
  <2>3. CASE AC!Fail(r) /\ UNCHANGED <<held, overlaps>>
    BY <2>2, <2>3, FailsWithNothing
  <2>4. CASE \E u \in AC!AccountsOf(e) : /\ held' = [held EXCEPT ![r] = AC!Rows(u)]
                                        /\ step' = [step EXCEPT ![r] = "login"] /\ UNCHANGED overlaps
    <3>1. PICK u \in AC!AccountsOf(e) : /\ held' = [held EXCEPT ![r] = AC!Rows(u)]
                                       /\ step' = [step EXCEPT ![r] = "login"] /\ UNCHANGED overlaps
          BY <2>4
    <3>2. u \in User /\ oidc[u].there BY DEF AC!AccountsOf
    <3>3. user[u].there BY <3>2 DEF NumbersInv, RowNumbers
    <3>4. AccountsTyped' BY <2>2, <3>1, <3>2, RowsTyped DEF AccountsTyped
    <3>5. OthersKeep(r) /\ step'[r] = "login" /\ held'[r] = AC!Rows(u) BY <3>1 DEF OthersKeep, AccountsTyped
    <3>6. KindOf(r)' BY <2>2, <3>2, <3>3, <3>5 DEF KindOf, AC!Rows
    <3>7. ReadsRows(r, u) BY <2>2, <3>1, <3>3, <3>5 DEF ReadsRows, AccountRowsKept, AC!Rows
    <3> QED  BY <2>2, <3>2, <3>4, <3>5, <3>6, <3>7, KindsMove
  <2>5. CASE /\ AC!AccountsOf(e) = {} /\ step' = [step EXCEPT ![r] = "first"]
             /\ \E i \in DOMAIN Usernames[e] : held' = [held EXCEPT ![r] = AC!Nothing(Usernames[e][i])]
             /\ overlaps' = overlaps \union {g \in {<<e, "twice">>} : AC!OtherLogin(r)}
    <3>1. PICK u \in User : held' = [held EXCEPT ![r] = AC!Nothing(u)]
      <4>1. PICK i \in DOMAIN Usernames[e] : held' = [held EXCEPT ![r] = AC!Nothing(Usernames[e][i])] BY <2>5
      <4>2. Usernames[e] \in Seq(User) BY <2>1, AccountsAssumption
      <4>3. Usernames[e][i] \in User BY <4>2
      <4> QED  BY <4>1, <4>3
    <3>2. AccountsTyped' BY <2>2, <2>5, <3>1, RowsTyped DEF AccountsTyped
    <3>3. OthersKeep(r) /\ step'[r] = "first" /\ held'[r] = AC!Nothing(u)
          BY <2>5, <3>1 DEF OthersKeep, AccountsTyped
    <3>4. KindOf(r)' BY <2>2, <3>3 DEF KindOf, AC!Nothing, AC!NoUser
    <3>5. ASSUME NEW ro \in AccountCall \ {r}, Entering(ro), Calls[ro].subject = Calls[r].subject
          PROVE  AC!OtherLogin(r)
          BY <3>5 DEF Entering, AC!OtherLogin, AC!asked, AC!Is, AC!Running, KindsInv, KindOf
    <3>6. Enters(r) BY <2>2, <2>5, <3>3, <3>5 DEF Enters, AccountRowsKept, Twice
    <3> QED  BY <2>2, <3>2, <3>3, <3>4, <3>6, KindsMove
  <2> QED  BY <1>3, <2>3, <2>4, <2>5, ZenonT(60) DEF AC!FindUser, AC!Hold, AC!Goto, AC!FreeNames
<1>4. CASE AC!StartJob(r)
  <2>1. UNCHANGED <<user, channel, oidc, drawn, grants, accounts, wanted, overlaps>> /\ step[r] = "new"
        /\ r \in accounts.asked /\ Calls[r].kind = "sync" /\ left' = DOMAIN UserFile
        BY <1>4 DEF AC!StartJob, AC!Is, AC!asked, AC!rowVars
  <2>2. step' = [step EXCEPT ![r] = "lines"] /\ held' = [held EXCEPT ![r] = AC!Nothing(Calls[r].user)]
        BY <1>4 DEF AC!StartJob, AC!Goto, AC!Hold
  <2>3. AC!Nothing(Calls[r].user) \in HeldRows BY <1>0, RowsTyped DEF AC!RequestType
  <2>4. ~AC!Nothing(Calls[r].user).user.there BY DEF AC!Nothing, AC!NoUser
  <2>5. AccountsTyped' BY <2>1, <2>2, <2>3 DEF AccountsTyped
  <2>6. OthersKeep(r) /\ step'[r] = "lines" /\ held'[r] = AC!Nothing(Calls[r].user)
        BY <2>2 DEF OthersKeep, AccountsTyped
  <2>7. KindOf(r)' BY <2>1, <2>4, <2>6 DEF KindOf
  <2> QED  BY <2>1, <2>5, <2>6, <2>7, KindsMove DEF Ends, AccountRowsKept, AccountsTyped
<1> QED  BY <1>1, <1>2, <1>3, <1>4

\* The writes to the channel of an account.
LEMMA ChannelEffect ==
  ASSUME AccountsTyped, KindsInv, NEW r \in AccountCall, AC!SaveChannel(r) \/ AC!InsertChannel(r)
  PROVE  AccountsTyped' /\ KindsInv' /\ UNCHANGED accounts
         /\ (Ends(r) \/ \E u \in User : PutsChannel(r, u) \/ InsertsChannel(r, u))
<1> USE DEF Holding, Loose
<1> DEFINE u == held[r].name
<1>0. Calls[r] \in AC!RequestType /\ held[r] \in HeldRows /\ KindOf(r) /\ u \in User
      BY AccountsAssumption DEF AccountsTyped, KindsInv, HeldRows
<1>1. r \in accounts.asked /\ UNCHANGED <<user, oidc, grants, drawn, left, held, accounts>>
  <2>1. step[r] # "new" BY DEF AC!SaveChannel, AC!InsertChannel
  <2> QED  BY <2>1, RunningIsAsked DEF AC!SaveChannel, AC!InsertChannel, AC!requestVars
<1>2. wanted[u] \in Wanted BY <1>0 DEF AccountsTyped
<1>3. CASE AC!SaveChannel(r)
  <2>1. step[r] = "put" BY <1>3 DEF AC!SaveChannel
  <2>2. CASE ~AC!CanRefer(r, u)
    <3>1. AC!Fail(r) /\ UNCHANGED <<channel, wanted, overlaps>> BY <1>3, <2>2 DEF AC!SaveChannel
    <3> QED  BY <1>1, <2>1, <3>1, FailsWithNothing
  <2>3. CASE AC!CanRefer(r, u)
    <3> DEFINE sync == AC!Is(r, {"sync"})
               entry == IF sync THEN [held[r].channel EXCEPT !.name = UserFile[u]]
                              ELSE [held[r].channel EXCEPT !.role = Calls[r].role]
    <3>1. sync <=> Calls[r].kind = "sync" BY <1>1 DEF AC!Is, AC!asked
    <3>2. AC!Is(r, {"role"}) <=> Calls[r].kind = "role" BY <1>1 DEF AC!Is, AC!asked
    <3>3. AC!PutChannel(r, u, entry) /\ AC!Goto(r, IF sync THEN "next" ELSE "save")
          BY <1>3, <2>3 DEF AC!SaveChannel
    <3>4. channel' = [channel EXCEPT ![u] = entry] BY <3>3 DEF AC!PutChannel
    <3> DEFINE role == IF sync THEN wanted[u].role ELSE entry.role
               name == IF AC!Is(r, {"role"}) THEN wanted[u].name ELSE entry.name
    <3>15. wanted' = [wanted EXCEPT ![u].role = role, ![u].name = name] BY <3>3 DEF AC!PutChannel
    <3> HIDE DEF role, name
    <3> DEFINE k == [wanted[u] EXCEPT !.role = role, !.name = name]
    <3>16. wanted' = [wanted EXCEPT ![u] = k] BY <1>0, <1>2, <3>15 DEF AccountsTyped
    <3>5. Marks(r, u, "channel") BY <1>0, <3>3, OverlapsMark DEF AC!PutChannel
    <3>6. /\ held[r].channel \in ChannelRow /\ Calls[r].role \in AC!Role
          /\ sync => UserFile[u] \in Channel
          BY <1>0, <2>1, <3>1, AccountsAssumption DEF HeldRows, AC!RequestType, KindOf
    <3>7. /\ entry \in ChannelRow
          /\ sync => entry.role = held[r].channel.role
          /\ ~sync => entry.name = held[r].channel.name
          BY <3>6 DEF ChannelRow
    <3> HIDE DEF entry
    <3>8. /\ k \in Wanted /\ k.password = wanted[u].password /\ k.gone = wanted[u].gone
          /\ entry.role = k.role \/ (entry.role = held[r].channel.role /\ k.role = wanted[u].role)
          /\ entry.name = k.name \/ (entry.name = held[r].channel.name /\ k.name = wanted[u].name)
          BY <1>0, <1>2, <2>1, <3>1, <3>2, <3>7 DEF Wanted, ChannelRow, KindOf, role, name
    <3> HIDE DEF k
    <3>9. PICK place \in {"next", "save"} : step' = [step EXCEPT ![r] = place] /\ (place = "next" <=> sync)
          BY <3>3 DEF AC!Goto
    <3>10. AccountsTyped' BY <1>1, <3>4, <3>7, <3>8, <3>9, <3>16 DEF AccountsTyped
    <3>11. OthersKeep(r) /\ step'[r] = place BY <1>1, <3>9 DEF OthersKeep, AccountsTyped
    <3>12. OthersOf(u) /\ channel'[u] = entry /\ wanted'[u] = k
           BY <1>0, <1>1, <3>4, <3>16 DEF OthersOf, UserKeeps, AccountsTyped
    <3>13. KindOf(r)' BY <1>0, <1>1, <2>1, <3>1, <3>9, <3>11 DEF KindOf
    <3>14. PutsChannel(r, u) BY <1>1, <2>1, <2>3, <3>5, <3>8, <3>9, <3>11, <3>12 DEF PutsChannel
    <3> QED  BY <1>0, <1>1, <3>10, <3>11, <3>13, <3>14, KindsMove
  <2> QED  BY <2>2, <2>3
<1>4. CASE AC!InsertChannel(r)
  <2>1. step[r] = "insert" /\ UNCHANGED overlaps BY <1>4 DEF AC!InsertChannel
  <2>2. CASE ~(AC!CanRefer(r, u) /\ ~channel[u].there)
    <3>1. AC!Fail(r) /\ UNCHANGED <<channel, wanted>> BY <1>4, <2>2 DEF AC!InsertChannel
    <3> QED  BY <1>1, <2>1, <3>1, FailsWithNothing
  <2>3. CASE AC!CanRefer(r, u) /\ ~channel[u].there
    <3>1. PICK role \in AC!Role, name \in Channel \union {"none"}, place \in {"next", "info", "done"} :
            /\ channel' = [channel EXCEPT ![u] = [there |-> TRUE, role |-> role, name |-> name]]
            /\ wanted' = [wanted EXCEPT ![u].role = role, ![u].name = name]
            /\ step' = [step EXCEPT ![r] = place]
            /\ place = "next" => Calls[r].kind = "sync"
            /\ place = "info" => Calls[r].kind = "login"
      <4>1. ASSUME NEW kinds PROVE AC!Is(r, kinds) <=> Calls[r].kind \in kinds BY <1>1 DEF AC!Is, AC!asked
      <4>2. accounts.default \in Channel \union {"none"} /\ Calls[r].role \in AC!Role /\ HomeChannel \in Channel
            /\ "USER" \in AC!Role /\ "ADMIN" \in AC!Role
            BY <1>0, AccountsAssumption DEF AccountsTyped, AC!Setting, AC!RequestType, AC!Role
      <4>3. CASE Calls[r].kind = "sync"
        <5>1. UserFile[u] \in Channel BY <1>0, <2>1, <4>3, AccountsAssumption DEF KindOf
        <5>2. /\ channel' = [channel EXCEPT ![u] = [there |-> TRUE, role |-> "ADMIN", name |-> UserFile[u]]]
              /\ wanted' = [wanted EXCEPT ![u].role = "ADMIN", ![u].name = UserFile[u]]
              /\ step' = [step EXCEPT ![r] = "next"]
              BY <1>4, <2>3, <4>1, <4>3 DEF AC!InsertChannel, AC!Goto
        <5> QED  BY <4>2, <4>3, <5>1, <5>2
      <4>4. CASE Calls[r].kind = "login"
        <5>1. /\ channel' = [channel EXCEPT ![u] = [there |-> TRUE, role |-> "USER", name |-> accounts.default]]
              /\ wanted' = [wanted EXCEPT ![u].role = "USER", ![u].name = accounts.default]
              /\ step' = [step EXCEPT ![r] = "info"]
              BY <1>4, <2>3, <4>1, <4>4 DEF AC!InsertChannel, AC!Goto
        <5> QED  BY <4>2, <4>4, <5>1
      <4>5. CASE Calls[r].kind \notin {"sync", "login"}
        <5>1. /\ channel' = [channel EXCEPT ![u] = [there |-> TRUE, role |-> Calls[r].role, name |-> HomeChannel]]
              /\ wanted' = [wanted EXCEPT ![u].role = Calls[r].role, ![u].name = HomeChannel]
              /\ step' = [step EXCEPT ![r] = "done"]
              BY <1>4, <2>3, <4>1, <4>5 DEF AC!InsertChannel, AC!Goto
        <5> QED  BY <4>2, <5>1
      <4> QED  BY <4>3, <4>4, <4>5
    <3> DEFINE entry == [there |-> TRUE, role |-> role, name |-> name]
               k == [wanted[u] EXCEPT !.role = role, !.name = name]
    <3>2. entry \in ChannelRow /\ entry.role = role /\ entry.name = name BY DEF ChannelRow
    <3>3. /\ k \in Wanted /\ k.password = wanted[u].password /\ k.gone = wanted[u].gone
          /\ k.role = role /\ k.name = name
          BY <1>2 DEF Wanted
    <3>4. wanted' = [wanted EXCEPT ![u] = k] BY <1>0, <1>2, <3>1 DEF AccountsTyped
    <3>5. channel' = [channel EXCEPT ![u] = entry] BY <3>1
    <3>11. /\ step' = [step EXCEPT ![r] = place]
           /\ place = "next" => Calls[r].kind = "sync"
           /\ place = "info" => Calls[r].kind = "login"
           BY <3>1
    <3> HIDE DEF entry, k
    <3>6. AccountsTyped' BY <1>1, <3>2, <3>3, <3>4, <3>5, <3>11 DEF AccountsTyped
    <3>7. OthersKeep(r) /\ step'[r] = place BY <1>1, <3>11 DEF OthersKeep, AccountsTyped
    <3>8. OthersOf(u) /\ channel'[u] = entry /\ wanted'[u] = k
          BY <1>0, <1>1, <3>4, <3>5 DEF OthersOf, UserKeeps, AccountsTyped
    <3>9. KindOf(r)' BY <1>0, <1>1, <2>1, <3>7, <3>11 DEF KindOf
    <3>10. InsertsChannel(r, u) BY <1>1, <2>1, <2>3, <3>2, <3>3, <3>7, <3>8 DEF InsertsChannel
    <3> QED  BY <1>0, <1>1, <3>6, <3>7, <3>9, <3>10, KindsMove
  <2> QED  BY <2>2, <2>3
<1> QED  BY <1>3, <1>4

\* The writes to the entry of a user.
LEMMA UserEffect ==
  ASSUME AccountsTyped, KindsInv, NEW r \in AccountCall, AC!SaveUser(r) \/ AC!CreateExternal(r)
  PROVE  AccountsTyped' /\ KindsInv' /\ UNCHANGED accounts
         /\ (Ends(r) \/ \E u \in User : MakesUser(r, u) \/ SavesAsRead(r, u) \/ SetsPassword(r, u))
<1> USE DEF Holding, Loose
<1> DEFINE u == held[r].name
<1>0. held[r] \in HeldRows /\ KindOf(r) /\ u \in User BY DEF AccountsTyped, KindsInv, HeldRows
<1>1. r \in accounts.asked /\ UNCHANGED <<channel, oidc, grants, left, accounts>>
  <2>1. step[r] # "new" BY DEF AC!SaveUser, AC!CreateExternal
  <2> QED  BY <2>1, RunningIsAsked DEF AC!SaveUser, AC!CreateExternal, AC!requestVars
<1>2. wanted[u] \in Wanted BY <1>0 DEF AccountsTyped
<1>3. CASE AC!SaveUser(r)
  <2>1. step[r] = "save" /\ UNCHANGED held BY <1>3 DEF AC!SaveUser, AC!requestVars
  <2>2. CASE ~AC!CanSaveUser(r, u)
    <3>1. AC!Fail(r) /\ UNCHANGED <<user, drawn, wanted, overlaps>> BY <1>3, <2>2 DEF AC!SaveUser
    <3> QED  BY <1>1, <2>1, <3>1, FailsWithNothing
  <2>3. ASSUME AC!CanSaveUser(r, u) PROVE
            /\ Calls[r].kind = "role" => user' = [user EXCEPT ![u] = held[r].user] /\ UNCHANGED <<drawn, wanted, overlaps>>
            /\ Calls[r].kind # "role" => AC!SetPassword(r, u)
            /\ step' = [step EXCEPT ![r] = IF Calls[r].kind = "sync" THEN "get" ELSE "done"]
    BY <1>1, <1>3, <2>3 DEF AC!SaveUser, AC!Is, AC!asked, AC!Goto
  <2>4. held[r].user \in UserRow /\ held[r].user.there BY <1>0, <2>1 DEF HeldRows, KindOf
  <2>5. CASE AC!CanSaveUser(r, u) /\ Calls[r].kind = "role"
    <3>1. /\ user' = [user EXCEPT ![u] = held[r].user] /\ UNCHANGED <<drawn, wanted, overlaps>>
          /\ step' = [step EXCEPT ![r] = "done"]
          BY <2>3, <2>5
    <3>2. AccountsTyped' BY <1>1, <2>1, <2>4, <3>1 DEF AccountsTyped
    <3>3. OthersKeep(r) /\ step'[r] = "done" BY <2>1, <3>1 DEF OthersKeep, AccountsTyped
    <3>4. OthersOf(u) /\ user'[u] = held[r].user
          BY <1>0, <1>1, <3>1 DEF OthersOf, UserKeeps, AccountsTyped
    <3>5. KindOf(r)' BY <1>1, <3>3 DEF KindOf
    <3>6. SavesAsRead(r, u) BY <1>1, <2>1, <2>5, <3>1, <3>3, <3>4 DEF SavesAsRead
    <3> QED  BY <1>0, <1>1, <3>2, <3>3, <3>5, <3>6, KindsMove
  <2>6. CASE AC!CanSaveUser(r, u) /\ Calls[r].kind # "role"
    <3> DEFINE entry == [held[r].user EXCEPT !.password = drawn + 1]
               k == [wanted[u] EXCEPT !.password = drawn + 1]
    <3>1. PICK place \in {"get", "done"} : step' = [step EXCEPT ![r] = place] /\ (place = "get" <=> Calls[r].kind = "sync")
          BY <2>3, <2>6
    <3>2. /\ user' = [user EXCEPT ![u] = entry] /\ drawn' = drawn + 1
          BY <2>3, <2>6 DEF AC!SetPassword, AC!Fresh
    <3>3. wanted' = [wanted EXCEPT ![u] = k] BY <2>3, <2>6 DEF AC!SetPassword, AC!Fresh
    <3>4. Marks(r, u, "password") BY <1>0, <2>3, <2>6, OverlapsMark DEF AC!SetPassword
    <3>5. drawn + 1 \in Nat BY DEF AccountsTyped
    <3>6. entry \in UserRow /\ entry.there /\ entry.id = held[r].user.id /\ entry.password = drawn + 1
          BY <2>4, <3>5 DEF UserRow
    <3>7. k \in Wanted /\ k.password = drawn + 1 /\ k.role = wanted[u].role /\ k.name = wanted[u].name /\ k.gone = wanted[u].gone
          BY <1>2, <3>5 DEF Wanted
    <3> HIDE DEF entry, k
    <3>13. grants \subseteq 0..drawn + 1 BY <3>5 DEF AccountsTyped
    <3>8. AccountsTyped' BY <1>1, <2>1, <3>1, <3>2, <3>3, <3>5, <3>6, <3>7, <3>13 DEF AccountsTyped
    <3>9. OthersKeep(r) /\ step'[r] = place BY <2>1, <3>1 DEF OthersKeep, AccountsTyped
    <3>10. OthersOf(u) /\ user'[u] = entry /\ wanted'[u] = k
           BY <1>0, <1>1, <3>2, <3>3 DEF OthersOf, UserKeeps, AccountsTyped
    <3>11. KindOf(r)' BY <1>0, <1>1, <2>1, <3>1, <3>9 DEF KindOf
    <3>12. SetsPassword(r, u) BY <1>1, <2>1, <2>6, <3>1, <3>2, <3>4, <3>6, <3>7, <3>9, <3>10 DEF SetsPassword, DrawsNext
    <3> QED  BY <1>0, <1>1, <3>8, <3>9, <3>11, <3>12, KindsMove
  <2> QED  BY <2>2, <2>5, <2>6
<1>4. CASE AC!CreateExternal(r)
  <2>1. step[r] = "first" /\ UNCHANGED overlaps BY <1>4 DEF AC!CreateExternal
  <2>2. Calls[r].kind = "login" BY <1>0, <2>1 DEF KindOf
  <2>3. CASE user[u].there
    <3>1. AC!Fail(r) /\ UNCHANGED <<user, held, drawn, wanted>> BY <1>4, <2>3 DEF AC!CreateExternal
    <3> QED  BY <1>1, <2>1, <3>1, FailsWithNothing
  <2>4. CASE ~user[u].there
    <3>1. AC!CreateUser(r, u) BY <1>4, <2>4 DEF AC!CreateExternal
    <3>2. PICK place \in {"insert", "info"} : step' = [step EXCEPT ![r] = place]
          BY <1>4, <2>4 DEF AC!CreateExternal, AC!Goto
    <3> QED  BY <1>0, <1>1, <2>1, <2>2, <2>4, <3>1, <3>2, MakesUserEffect
  <2> QED  BY <2>3, <2>4
<1> QED  BY <1>3, <1>4

\* The writes of a login and of a refresh.
LEMMA LoginEffect ==
  ASSUME AccountsTyped, KindsInv, NEW r \in AccountCall,
         AC!CreateInfo(r) \/ AC!SaveLogin(r) \/ AC!UseRefreshToken(r) \/ AC!SaveRefresh(r)
  PROVE  AccountsTyped' /\ KindsInv' /\ UNCHANGED accounts
         /\ (Ends(r) \/ UsesToken(r) \/ \E u \in User : AddsInfo(r, u) \/ LogsIn(r, u) \/ Renewed(r, u))
<1> USE DEF Holding, Loose
<1> DEFINE u == held[r].name
<1>0. Calls[r] \in AC!RequestType /\ held[r] \in HeldRows /\ KindOf(r) /\ u \in User
      BY AccountsAssumption DEF AccountsTyped, KindsInv, HeldRows
<1>1. r \in accounts.asked /\ UNCHANGED <<user, channel, wanted, left, overlaps, accounts>>
  <2>1. step[r] # "new" BY DEF AC!CreateInfo, AC!SaveLogin, AC!UseRefreshToken, AC!SaveRefresh
  <2> QED  BY <2>1, RunningIsAsked
           DEF AC!CreateInfo, AC!SaveLogin, AC!UseRefreshToken, AC!SaveRefresh, AC!requestVars, AC!rowVars
<1>2. held[r].oidc \in InfoRow BY <1>0 DEF HeldRows
<1>3. CASE AC!CreateInfo(r)
  <2> DEFINE e == Calls[r].subject
             entry == [AC!NoInfo EXCEPT !.there = TRUE, !.subjects = {e}, !.valid = TRUE]
             j == [held[r] EXCEPT !.oidc = entry]
  <2>1. step[r] = "info" /\ UNCHANGED <<grants, drawn>> BY <1>3 DEF AC!CreateInfo
  <2>2. CASE ~AC!CanRefer(r, u)
    <3>1. AC!Fail(r) /\ UNCHANGED <<oidc, held>> BY <1>3, <2>2 DEF AC!CreateInfo
    <3> QED  BY <1>1, <2>1, <3>1, FailsWithNothing
  <2>3. CASE AC!CanRefer(r, u)
    <3>1. oidc' = [oidc EXCEPT ![u] = entry] /\ held' = [held EXCEPT ![r] = j] /\ step' = [step EXCEPT ![r] = "login"]
          BY <1>3, <2>3 DEF AC!CreateInfo, AC!Hold, AC!Goto
    <3>2. e \in Subject BY <1>0 DEF AC!RequestType
    <3>3. entry \in InfoRow /\ entry.there /\ entry.subjects = {e} /\ entry.token = 0
          BY <3>2 DEF InfoRow, AC!NoInfo
    <3> HIDE DEF entry
    <3>4. j \in HeldRows /\ j.name = u /\ j.user = held[r].user /\ j.oidc = entry BY <1>0, <3>3 DEF HeldRows
    <3> HIDE DEF j
    <3>5. AccountsTyped' BY <1>1, <2>1, <3>1, <3>3, <3>4 DEF AccountsTyped
    <3>6. OthersKeep(r) /\ step'[r] = "login" /\ held'[r] = j BY <3>1 DEF OthersKeep, AccountsTyped
    <3>7. OthersOf(u) /\ oidc'[u] = entry BY <1>0, <1>1, <3>1 DEF OthersOf, UserKeeps, AccountsTyped
    <3>8. KindOf(r)' BY <1>0, <1>1, <2>1, <3>3, <3>4, <3>6 DEF KindOf
    <3>9. AddsInfo(r, u) BY <1>1, <2>1, <2>3, <3>3, <3>4, <3>6, <3>7 DEF AddsInfo
    <3> QED  BY <1>0, <1>1, <3>5, <3>6, <3>8, <3>9, KindsMove
  <2> QED  BY <2>2, <2>3
<1>4. CASE AC!SaveLogin(r)
  <2>1. step[r] = "login" /\ grants' = grants \union {drawn + 1} /\ drawn' = drawn + 1 /\ UNCHANGED held
        BY <1>4 DEF AC!SaveLogin, AC!Fresh, AC!requestVars
  <2>2. drawn' \in Nat /\ drawn <= drawn' /\ grants' \subseteq 0..drawn' /\ drawn + 1 \in Nat
        BY <2>1 DEF AccountsTyped
  <2>3. CASE ~AC!CanRefer(r, u)
    <3>1. AC!Fail(r) /\ UNCHANGED oidc BY <1>4, <2>3 DEF AC!SaveLogin
    <3>2. PICK place \in {"new", "failed"} : step' = [step EXCEPT ![r] = place] BY <3>1 DEF AC!Fail, AC!Goto
    <3>3. held' = [held EXCEPT ![r] = held[r]] BY <2>1 DEF AccountsTyped
    <3>4. grants \subseteq grants' /\ left' \subseteq left BY <1>1, <2>1
    <3> QED  BY <1>0, <1>1, <2>1, <2>2, <3>1, <3>2, <3>3, <3>4, NothingWritten
  <2>4. CASE AC!CanRefer(r, u)
    <3> DEFINE entry == [held[r].oidc EXCEPT !.valid = TRUE, !.token = drawn + 1]
    <3>1. oidc' = [oidc EXCEPT ![u] = entry] /\ step' = [step EXCEPT ![r] = "done"]
          BY <1>4, <2>4 DEF AC!SaveLogin, AC!Goto, AC!Fresh
    <3>2. held[r].oidc.there BY <1>0, <2>1 DEF KindOf
    <3>3. entry \in InfoRow /\ entry.there /\ entry.subjects = held[r].oidc.subjects /\ entry.token = drawn + 1
          BY <1>2, <2>2, <3>2 DEF InfoRow
    <3> HIDE DEF entry
    <3>4. AccountsTyped' BY <1>1, <2>1, <2>2, <3>1, <3>3 DEF AccountsTyped
    <3>5. OthersKeep(r) /\ step'[r] = "done" BY <2>1, <3>1 DEF OthersKeep, AccountsTyped
    <3>6. OthersOf(u) /\ oidc'[u] = entry BY <1>0, <1>1, <3>1 DEF OthersOf, UserKeeps, AccountsTyped
    <3>7. KindOf(r)' BY <1>1, <3>5 DEF KindOf
    <3>8. LogsIn(r, u) BY <1>1, <2>1, <2>4, <3>3, <3>5, <3>6 DEF LogsIn, DrawsNext
    <3> QED  BY <1>0, <1>1, <3>4, <3>5, <3>7, <3>8, KindsMove
  <2> QED  BY <2>3, <2>4
<1>5. CASE AC!UseRefreshToken(r)
  <2>1. step[r] = "exchange" /\ UNCHANGED oidc BY <1>5 DEF AC!UseRefreshToken, AC!rowVars
  <2>2. CASE held[r].oidc.token \notin grants
    <3>1. AC!Fail(r) /\ UNCHANGED <<grants, drawn, held>> BY <1>5, <2>2 DEF AC!UseRefreshToken
    <3> QED  BY <1>1, <2>1, <3>1, FailsWithNothing
  <2>3. CASE held[r].oidc.token \in grants
    <3> DEFINE entry == [held[r].oidc EXCEPT !.token = drawn + 1, !.valid = TRUE]
               j == [held[r] EXCEPT !.oidc = entry]
    <3>1. /\ grants' = (grants \ {held[r].oidc.token}) \union {drawn + 1} /\ drawn' = drawn + 1
          /\ step' = [step EXCEPT ![r] = "refresh"]
          BY <1>5, <2>3 DEF AC!UseRefreshToken, AC!Goto, AC!Fresh
    <3>2. held' = [held EXCEPT ![r] = [held[r] EXCEPT !.oidc.token = drawn + 1, !.oidc.valid = TRUE]]
          BY <1>5, <2>3 DEF AC!UseRefreshToken, AC!Hold, AC!Fresh
    <3>3. held' = [held EXCEPT ![r] = j] BY <1>0, <1>2, <3>2 DEF HeldRows, InfoRow
    <3>12. grants' \subseteq grants \union {drawn + 1} BY <3>1
    <3>13. drawn \in Nat /\ grants \subseteq 0..drawn /\ drawn' = drawn + 1 BY <3>1 DEF AccountsTyped
    <3>4. drawn' \in Nat /\ grants' \subseteq 0..drawn' /\ drawn + 1 \in Nat BY ONLY <3>12, <3>13
    <3>5. held[r].oidc.there /\ held[r].user.there BY <1>0, <2>1 DEF KindOf
    <3>6. /\ entry \in InfoRow /\ entry.there /\ entry.token = drawn + 1
          /\ entry.subjects = held[r].oidc.subjects
          BY <1>2, <3>4, <3>5 DEF InfoRow
    <3> HIDE DEF entry
    <3>7. j \in HeldRows /\ j.name = u /\ j.user = held[r].user /\ j.oidc = entry BY <1>0, <3>6 DEF HeldRows
    <3> HIDE DEF j
    <3>8. AccountsTyped' BY <1>1, <2>1, <3>1, <3>3, <3>4, <3>7 DEF AccountsTyped
    <3>9. OthersKeep(r) /\ step'[r] = "refresh" /\ held'[r] = j BY <3>1, <3>3 DEF OthersKeep, AccountsTyped
    <3>10. KindOf(r)' BY <1>0, <1>1, <2>1, <3>5, <3>6, <3>7, <3>9 DEF KindOf
    <3>11. UsesToken(r) BY <1>1, <2>1, <3>1, <3>6, <3>7, <3>9 DEF UsesToken, DrawsNext, AccountRowsKept
    <3> QED  BY <1>1, <3>8, <3>9, <3>10, <3>11, KindsMove
  <2> QED  BY <2>2, <2>3
<1>6. CASE AC!SaveRefresh(r)
  <2>1. step[r] = "refresh" /\ UNCHANGED <<grants, drawn, held>> BY <1>6 DEF AC!SaveRefresh, AC!requestVars
  <2>2. CASE ~AC!CanRefer(r, u)
    <3>1. AC!Fail(r) /\ UNCHANGED oidc BY <1>6, <2>2 DEF AC!SaveRefresh
    <3> QED  BY <1>1, <2>1, <2>2, <3>1, FailsWithNothing
  <2>3. CASE AC!CanRefer(r, u)
    <3>1. oidc' = [oidc EXCEPT ![u] = held[r].oidc] /\ step' = [step EXCEPT ![r] = "done"]
          BY <1>6, <2>3 DEF AC!SaveRefresh, AC!Goto
    <3>2. AccountsTyped' BY <1>1, <1>2, <2>1, <3>1 DEF AccountsTyped
    <3>3. OthersKeep(r) /\ step'[r] = "done" BY <2>1, <3>1 DEF OthersKeep, AccountsTyped
    <3>4. OthersOf(u) /\ oidc'[u] = held[r].oidc BY <1>0, <1>1, <3>1 DEF OthersOf, UserKeeps, AccountsTyped
    <3>5. KindOf(r)' BY <1>1, <3>3 DEF KindOf
    <3>6. Renewed(r, u) BY <1>1, <2>1, <2>3, <3>3, <3>4 DEF Renewed
    <3> QED  BY <1>0, <1>1, <3>2, <3>3, <3>5, <3>6, KindsMove
  <2> QED  BY <2>2, <2>3
<1> QED  BY <1>3, <1>4, <1>5, <1>6

\* The job goes on or ends.
LEMMA JobEffect ==
  ASSUME AccountsTyped, KindsInv, NEW r \in AccountCall,
         \/ AC!UpdateInstead(r) \/ AC!NextElement(r) \/ AC!EndOfFile(r) \/ AC!EndJob(r)
         \/ \E u \in User : AC!HandleElement(r, u) \/ AC!DeleteOther(r, u)
  PROVE  AccountsTyped' /\ KindsInv' /\ UNCHANGED accounts
         /\ (Ends(r) \/ \E u \in User : ReadsRows(r, u) \/ MakesUser(r, u) \/ Deletes(r, u))
<1> USE DEF Holding, Loose
<1>0. held[r] \in HeldRows /\ KindOf(r) BY DEF AccountsTyped, KindsInv
<1>1. /\ step[r] \in {"insert", "next", "lines", "others"} /\ UNCHANGED <<grants, accounts>>
      BY DEF AC!UpdateInstead, AC!NextElement, AC!EndOfFile, AC!EndJob, AC!HandleElement, AC!DeleteOther, AC!requestVars
<1>2. r \in accounts.asked /\ Calls[r].kind = "sync"
  <2>1. r \in accounts.asked BY <1>1, RunningIsAsked
  <2>2. step[r] = "insert" => AC!Is(r, {"sync"})
        BY <1>1 DEF AC!UpdateInstead, AC!IsThere, AC!NextElement, AC!EndOfFile, AC!EndJob, AC!HandleElement, AC!DeleteOther
  <2> QED  BY <1>0, <1>1, <2>1, <2>2 DEF KindOf, AC!Is
<1>8. CASE AC!UpdateInstead(r)
  <2> DEFINE u == held[r].name
  <2>1. /\ step[r] = "insert" /\ user[u].there
        /\ step' = [step EXCEPT ![r] = "save"] /\ held' = [held EXCEPT ![r] = AC!Rows(u)]
        /\ UNCHANGED <<user, channel, oidc, drawn, wanted, left, overlaps>>
        BY <1>8 DEF AC!UpdateInstead, AC!IsThere, AC!Goto, AC!Hold, AC!rowVars
  <2>2. u \in User /\ u \in DOMAIN UserFile BY <1>0, <1>2, <2>1 DEF KindOf, HeldRows
  <2> HIDE DEF u
  <2>3. AccountsTyped' BY <1>1, <2>1, <2>2, RowsTyped DEF AccountsTyped
  <2>4. OthersKeep(r) /\ step'[r] = "save" /\ held'[r] = AC!Rows(u) BY <2>1 DEF OthersKeep, AccountsTyped
  <2>5. KindOf(r)' BY <1>1, <1>2, <2>1, <2>2, <2>4 DEF KindOf, AC!Rows
  <2>6. ReadsRows(r, u) BY <1>1, <1>2, <2>1, <2>4 DEF ReadsRows, AccountRowsKept, AC!Rows
  <2> QED  BY <1>1, <2>2, <2>3, <2>4, <2>5, <2>6, KindsMove
<1>3. CASE AC!NextElement(r)
  <2> DEFINE j == AC!Nothing(held[r].name)
  <2>1. /\ step' = [step EXCEPT ![r] = "lines"] /\ held' = [held EXCEPT ![r] = j]
        /\ UNCHANGED <<user, channel, oidc, wanted, overlaps, drawn>> /\ left' \subseteq left
        BY <1>3 DEF AC!NextElement, AC!Goto, AC!Hold, AC!rowVars
  <2>2. j \in HeldRows BY <1>0, RowsTyped DEF HeldRows
  <2>3. ~j.user.there BY DEF AC!Nothing, AC!NoUser
  <2>4. drawn' \in Nat /\ drawn <= drawn' /\ grants' \subseteq 0..drawn' /\ grants \subseteq grants'
        /\ overlaps \subseteq overlaps'
        BY <1>1, <2>1 DEF AccountsTyped
  <2>5. step[r] = "next" BY <1>3 DEF AC!NextElement
  <2> HIDE DEF j
  <2> QED  BY <1>1, <1>2, <2>1, <2>2, <2>3, <2>4, <2>5, NothingWritten
<1>4. CASE AC!EndOfFile(r) \/ AC!EndJob(r)
  <2>1. PICK place \in {"done", "others"} : step' = [step EXCEPT ![r] = place]
        BY <1>4 DEF AC!EndOfFile, AC!EndJob, AC!Goto
  <2>2. UNCHANGED <<user, channel, oidc, wanted, overlaps, drawn, held, left>> /\ step[r] \in {"lines", "others"}
        BY <1>4 DEF AC!EndOfFile, AC!EndJob, AC!rowVars, AC!requestVars
  <2>3. held' = [held EXCEPT ![r] = held[r]] BY <2>2 DEF AccountsTyped
  <2>4. drawn' \in Nat /\ drawn <= drawn' /\ grants' \subseteq 0..drawn' /\ grants \subseteq grants'
        /\ overlaps \subseteq overlaps' /\ left' \subseteq left
        BY <1>1, <2>2 DEF AccountsTyped
  <2>5. ~held[r].user.there BY <1>0, <2>2 DEF KindOf
  <2> QED  BY <1>0, <1>1, <1>2, <2>1, <2>2, <2>3, <2>4, <2>5, NothingWritten
<1>5. CASE \E u \in User : AC!HandleElement(r, u)
  <2>1. PICK u \in User : AC!HandleElement(r, u) BY <1>5
  <2>2. /\ step[r] = "lines" /\ u \in DOMAIN UserFile
        /\ UNCHANGED <<channel, oidc, left, overlaps>>
        BY <2>1 DEF AC!HandleElement, AccountsTyped
  <2>3. CASE user[u].there
    <3>1. /\ step' = [step EXCEPT ![r] = "save"] /\ held' = [held EXCEPT ![r] = AC!Rows(u)]
          /\ UNCHANGED <<user, drawn, wanted>>
          BY <2>1, <2>3 DEF AC!HandleElement, AC!Goto, AC!Hold
    <3>2. AccountsTyped' BY <1>1, <2>2, <3>1, RowsTyped DEF AccountsTyped
    <3>3. OthersKeep(r) /\ step'[r] = "save" /\ held'[r] = AC!Rows(u) BY <3>1 DEF OthersKeep, AccountsTyped
    <3>4. KindOf(r)' BY <1>1, <1>2, <2>2, <2>3, <3>3 DEF KindOf, AC!Rows
    <3>5. ReadsRows(r, u) BY <1>1, <2>2, <2>3, <3>1, <3>3 DEF ReadsRows, AccountRowsKept, AC!Rows
    <3> QED  BY <1>1, <3>2, <3>3, <3>4, <3>5, KindsMove
  <2>4. CASE ~user[u].there
    <3>1. AC!CreateUser(r, u) /\ step' = [step EXCEPT ![r] = "insert"]
          BY <2>1, <2>4 DEF AC!HandleElement, AC!Goto
    <3> QED  BY <1>1, <1>2, <2>2, <2>4, <3>1, MakesUserEffect
  <2> QED  BY <2>3, <2>4
<1>6. CASE \E u \in User : AC!DeleteOther(r, u)
  <2>1. PICK u \in User : AC!DeleteOther(r, u) BY <1>6
  <2>2. step[r] = "others" /\ UNCHANGED <<drawn, held, left>> BY <2>1 DEF AC!DeleteOther
  <2>3. CASE user[u].there
    <3>1. AC!DeleteUser(r, u) /\ UNCHANGED step BY <2>1, <2>3 DEF AC!DeleteOther
    <3>2. step' = [step EXCEPT ![r] = "others"] BY <2>2, <3>1 DEF AccountsTyped
    <3> QED  BY <1>1, <1>2, <2>2, <2>3, <3>1, <3>2, DeletesEffect
  <2>4. CASE ~user[u].there
    <3>1. AC!Fail(r) /\ UNCHANGED <<user, channel, oidc, wanted, overlaps>>
          BY <2>1, <2>4 DEF AC!DeleteOther, AC!rowVars
    <3> QED  BY <1>1, <1>2, <2>2, <3>1, FailsWithNothing
  <2> QED  BY <2>3, <2>4
<1> QED  BY <1>3, <1>4, <1>5, <1>6, <1>8

LEMMA AccountsEffect ==
  ASSUME AccountsTyped, KindsInv, NumbersInv, [AC!Next]_(AC!vars)
  PROVE  AccountsTyped' /\ KindsInv' /\ UNCHANGED accounts /\ Effect
<1>1. ASSUME NEW r \in AccountCall, AC!Begin(r) \/ AC!StartJob(r) \/ AC!RequestStep(r)
      PROVE  AccountsTyped' /\ KindsInv' /\ UNCHANGED accounts /\ Effect
  <2>1. CASE AC!ReadUser(r) \/ AC!CheckValid(r) \/ AC!ReadChannel(r) BY <2>1, ReadsEffect DEF Effect
  <2>2. CASE AC!Create(r) \/ AC!Delete(r) \/ AC!FindUser(r) \/ AC!StartJob(r) BY <2>2, BeginsEffect DEF Effect
  <2>3. CASE AC!SaveChannel(r) \/ AC!InsertChannel(r) BY <2>3, ChannelEffect DEF Effect
  <2>4. CASE AC!SaveUser(r) \/ AC!CreateExternal(r) BY <2>4, UserEffect DEF Effect
  <2>5. CASE AC!CreateInfo(r) \/ AC!SaveLogin(r) \/ AC!UseRefreshToken(r) \/ AC!SaveRefresh(r)
    BY <2>5, LoginEffect DEF Effect
  <2>6. CASE \/ AC!UpdateInstead(r) \/ AC!NextElement(r) \/ AC!EndOfFile(r) \/ AC!EndJob(r)
             \/ \E u \in User : AC!HandleElement(r, u) \/ AC!DeleteOther(r, u)
    BY <2>6, JobEffect DEF Effect
  <2> QED  BY <1>1, <2>1, <2>2, <2>3, <2>4, <2>5, <2>6 DEF AC!Begin, AC!RequestStep
<1>2. ASSUME NEW r \in AccountCall, AC!Crash(r)
      PROVE  AccountsTyped' /\ KindsInv' /\ UNCHANGED accounts /\ Effect
  <2>1. AC!Fail(r) /\ step[r] # "new" /\ UNCHANGED <<user, channel, oidc, grants, drawn, wanted, accounts, held, left>>
        BY <1>2 DEF AC!Crash, AC!Running, AC!rowVars, AC!requestVars
  <2>2. /\ overlaps \subseteq overlaps'
        /\ step[r] = "refresh" => <<held[r].name, "lost">> \in overlaps'
        BY <1>2 DEF AC!Crash
  <2> QED  BY <2>1, <2>2, RunningIsAsked, FailsWithNothing DEF Effect
<1>3. ASSUME NEW u \in User, AC!Expire(u)
      PROVE  AccountsTyped' /\ KindsInv' /\ UNCHANGED accounts /\ Effect
  <2> DEFINE j == [oidc[u] EXCEPT !.valid = FALSE]
  <2>1. oidc' = [oidc EXCEPT ![u] = j] BY <1>3 DEF AC!Expire
  <2>2. UNCHANGED <<user, channel, grants, drawn, wanted, accounts, held, left, step, overlaps>>
        BY <1>3 DEF AC!Expire, AC!requestVars
  <2>3. oidc[u] \in InfoRow BY DEF AccountsTyped
  <2>4. j \in InfoRow /\ j.there = oidc[u].there /\ j.subjects = oidc[u].subjects /\ j.token = oidc[u].token
        BY <2>3 DEF InfoRow
  <2> HIDE DEF j
  <2>5. AccountsTyped' BY <2>1, <2>2, <2>4 DEF AccountsTyped
  <2>6. KindsInv' BY <2>2 DEF KindsInv, KindOf
  <2>7. oidc'[u] = j /\ OthersOf(u) BY <2>1, <2>2 DEF OthersOf, UserKeeps, AccountsTyped
  <2>8. Expires(u) BY <2>2, <2>4, <2>7 DEF Expires
  <2> QED  BY <2>2, <2>5, <2>6, <2>8 DEF Effect
<1>4. ASSUME NEW u \in User, AC!Revoke(u)
      PROVE  AccountsTyped' /\ KindsInv' /\ UNCHANGED accounts /\ Effect
  <2>1. /\ UNCHANGED <<user, channel, oidc, drawn, wanted, accounts, held, left, step>>
        /\ grants' = grants \ {oidc[u].token} /\ overlaps' = overlaps \union {<<u, "revoked">>}
        BY <1>4 DEF AC!Revoke, AC!rowVars, AC!requestVars
  <2>2. AccountsTyped' BY <2>1 DEF AccountsTyped
  <2>3. KindsInv' BY <2>1 DEF KindsInv, KindOf
  <2> QED  BY <2>1, <2>2, <2>3 DEF Effect, Revokes, AccountRowsKept
<1>5. ASSUME UNCHANGED <<user, channel, oidc, grants, drawn, wanted, accounts, held, left, step, overlaps>>
      PROVE  AccountsTyped' /\ KindsInv' /\ UNCHANGED accounts /\ Effect
  <2>1. AccountsTyped' BY <1>5 DEF AccountsTyped
  <2>2. KindsInv' BY <1>5 DEF KindsInv, KindOf
  <2> QED  BY <1>5, <2>1, <2>2 DEF Effect, Stays
<1>6. CASE AC!Rest \/ UNCHANGED AC!vars \/ \E u \in User : AC!GiveToken(u)
  BY <1>5, <1>6 DEF AC!Rest, AC!GiveToken, AC!vars, AC!rowVars, AC!requestVars
<1> QED  BY <1>1, <1>2, <1>3, <1>4, <1>6 DEF AC!Next

-----------------------------------------------------------------------------
(* One lemma for each part of the invariant, with a case for each effect that  *)
(* matters to it.                                                              *)

\* What an effect leaves alone.
LEMMA NumbersMove ==
  ASSUME NumbersInv, drawn \in Nat, drawn' \in Nat, drawn <= drawn',
         \A u \in User : UserKeeps(u) \/ RowNumbers(u)',
         \A r \in AccountCall : (step'[r] = step[r] /\ held'[r] = held[r]) \/ HeldNumbers(r)'
  PROVE  NumbersInv'
<1>1. ASSUME NEW u \in User, UserKeeps(u) PROVE RowNumbers(u)'
  <2>1. /\ user'[u] = user[u] /\ channel'[u] = channel[u] /\ oidc'[u] = oidc[u] /\ wanted'[u] = wanted[u]
        /\ RowNumbers(u)
        BY <1>1 DEF UserKeeps, NumbersInv
  <2>2. 0..drawn \subseteq 0..drawn' /\ 1..drawn \subseteq 1..drawn' OBVIOUS
  <2> QED  BY <2>1, <2>2 DEF RowNumbers
<1>2. ASSUME NEW r \in AccountCall, step'[r] = step[r], held'[r] = held[r] PROVE HeldNumbers(r)'
  <2>1. HeldNumbers(r) BY DEF NumbersInv
  <2> QED  BY <1>2, <2>1 DEF HeldNumbers
<1> QED  BY <1>1, <1>2 DEF NumbersInv

LEMMA NumbersStep ==
  ASSUME AccountsTyped, AccountsTyped', KindsInv, KindsInv', NumbersInv, Effect
  PROVE  NumbersInv'
<1>0. drawn \in Nat /\ drawn' \in Nat BY DEF AccountsTyped
<1>1. ASSUME NEW r \in AccountCall, NEW u \in User, OthersKeep(r), OthersOf(u), drawn <= drawn',
             RowNumbers(u)', HeldNumbers(r)'
      PROVE  NumbersInv'
  <2>1. \A w \in User : UserKeeps(w) \/ RowNumbers(w)' BY <1>1 DEF OthersOf
  <2>2. \A ro \in AccountCall : (step'[ro] = step[ro] /\ held'[ro] = held[ro]) \/ HeldNumbers(ro)'
        BY <1>1 DEF OthersKeep
  <2> QED  BY <1>0, <1>1, <2>1, <2>2, NumbersMove
<1>2. ASSUME NEW r \in AccountCall, OthersKeep(r), AccountRowsKept, drawn <= drawn', HeldNumbers(r)'
      PROVE  NumbersInv'
  <2>1. \A w \in User : UserKeeps(w) BY <1>2 DEF AccountRowsKept, UserKeeps
  <2>2. \A ro \in AccountCall : (step'[ro] = step[ro] /\ held'[ro] = held[ro]) \/ HeldNumbers(ro)'
        BY <1>2 DEF OthersKeep
  <2> QED  BY <1>0, <1>2, <2>1, <2>2, NumbersMove
<1>3. CASE Stays \/ \E u \in User : Revokes(u)
  BY <1>0, <1>3 DEF Stays, Revokes, AccountRowsKept, NumbersInv, RowNumbers, HeldNumbers
<1>4. ASSUME NEW r \in AccountCall, Ends(r) \/ Enters(r) \/ ReadsChannel(r) \/ UsesToken(r) PROVE NumbersInv'
  <2>1. HeldNumbers(r) BY DEF NumbersInv
  <2>2. CASE Ends(r) \/ Enters(r)
    <3>1. HeldNumbers(r)' BY <2>2 DEF Ends, Enters, HeldNumbers, Holding
    <3>2. OthersKeep(r) /\ AccountRowsKept /\ drawn <= drawn' BY <1>0, <2>2 DEF Ends, Enters
    <3> QED  BY <1>2, <3>1, <3>2
  <2>3. CASE ReadsChannel(r)
    <3>1. HeldNumbers(r)' BY <2>1, <2>3 DEF ReadsChannel, HeldNumbers, Holding
    <3>2. OthersKeep(r) /\ AccountRowsKept /\ drawn <= drawn' BY <1>0, <2>3 DEF ReadsChannel
    <3> QED  BY <1>2, <3>1, <3>2
  <2>4. CASE UsesToken(r)
    <3>1. HeldNumbers(r)' BY <1>0, <2>1, <2>4 DEF UsesToken, HeldNumbers, Holding, DrawsNext
    <3>2. OthersKeep(r) /\ AccountRowsKept /\ drawn <= drawn' BY <1>0, <2>4 DEF UsesToken, DrawsNext
    <3> QED  BY <1>2, <3>1, <3>2
  <2> QED  BY <1>4, <2>2, <2>3, <2>4
<1>5. ASSUME NEW u \in User, Expires(u) PROVE NumbersInv'
  <2>1. RowNumbers(u) BY DEF NumbersInv
  <2>2. RowNumbers(u)' BY <1>5, <2>1 DEF Expires, RowNumbers
  <2>3. \A w \in User : UserKeeps(w) \/ RowNumbers(w)' BY <1>5, <2>2 DEF Expires, OthersOf
  <2>4. \A ro \in AccountCall : step'[ro] = step[ro] /\ held'[ro] = held[ro] BY <1>5 DEF Expires
  <2>5. drawn <= drawn' BY <1>0, <1>5 DEF Expires
  <2> QED  BY <1>0, <2>3, <2>4, <2>5, NumbersMove
<1>6. ASSUME NEW r \in AccountCall, NEW u \in User, ReadsRows(r, u) PROVE NumbersInv'
  <2>1. RowNumbers(u) BY DEF NumbersInv
  <2>2. held'[r].user.id \in 1..drawn /\ held'[r].oidc.token \in 0..drawn BY <1>0, <1>6, <2>1 DEF ReadsRows, RowNumbers
  <2>3. HeldNumbers(r)' BY <1>6, <2>2 DEF ReadsRows, HeldNumbers
  <2>4. OthersKeep(r) /\ AccountRowsKept /\ drawn <= drawn' BY <1>0, <1>6 DEF ReadsRows
  <2> QED  BY <1>2, <2>3, <2>4
<1>7. ASSUME NEW r \in AccountCall, NEW u \in User,
             \/ MakesUser(r, u) \/ PutsChannel(r, u) \/ InsertsChannel(r, u) \/ SavesAsRead(r, u) \/ SetsPassword(r, u)
             \/ Deletes(r, u) \/ AddsInfo(r, u) \/ LogsIn(r, u) \/ Renewed(r, u)
      PROVE  NumbersInv'
  <2>1. RowNumbers(u) /\ HeldNumbers(r) /\ KindOf(r) /\ KindOf(r)' BY DEF NumbersInv, KindsInv
  <2>2. CASE MakesUser(r, u)
    <3>1. OthersKeep(r) /\ OthersOf(u) /\ drawn' = drawn + 1 BY <2>2 DEF MakesUser, DrawsNext
    <3>2. RowNumbers(u)' BY <1>0, <2>1, <2>2, <3>1 DEF MakesUser, RowNumbers
    <3>3. HeldNumbers(r)' BY <1>0, <2>2, <3>1 DEF MakesUser, HeldNumbers, AC!NoInfo
    <3> QED  BY <1>0, <1>1, <3>1, <3>2, <3>3
  <2>3. CASE PutsChannel(r, u) \/ InsertsChannel(r, u)
    <3>1. /\ OthersKeep(r) /\ OthersOf(u) /\ drawn' = drawn /\ user'[u] = user[u] /\ oidc'[u] = oidc[u]
          /\ held'[r] = held[r] /\ step[r] \in Holding /\ wanted'[u].gone = wanted[u].gone /\ user[u].there
          BY <2>3 DEF PutsChannel, InsertsChannel, Holding, AC!CanRefer
    <3>2. RowNumbers(u)' BY <2>1, <3>1 DEF RowNumbers
    <3>3. HeldNumbers(r)' BY <2>1, <3>1 DEF HeldNumbers
    <3> QED  BY <1>0, <1>1, <3>1, <3>2, <3>3
  <2>4. CASE SavesAsRead(r, u) \/ SetsPassword(r, u)
    <3>1. /\ OthersKeep(r) /\ OthersOf(u) /\ drawn' \in {drawn, drawn + 1} /\ user'[u].id = held[r].user.id
          /\ user'[u].there /\ oidc'[u] = oidc[u]
          /\ held'[r] = held[r] /\ step[r] \in Holding /\ wanted'[u].gone = wanted[u].gone
          BY <2>1, <2>4 DEF SavesAsRead, SetsPassword, Holding, DrawsNext, KindOf
    <3>2. held[r].user.id \in 1..drawn BY <2>1, <3>1 DEF HeldNumbers
    <3>3. RowNumbers(u)' BY <1>0, <2>1, <3>1, <3>2 DEF RowNumbers
    <3>4. HeldNumbers(r)' BY <1>0, <2>1, <3>1 DEF HeldNumbers
    <3> QED  BY <1>0, <1>1, <3>1, <3>3, <3>4
  <2>5. CASE Deletes(r, u)
    <3>1. OthersKeep(r) /\ OthersOf(u) /\ drawn' = drawn BY <2>5 DEF Deletes
    <3>2. /\ user'[u] = AC!NoUser /\ channel'[u] = AC!NoChannel /\ oidc'[u] = AC!NoInfo
          /\ wanted'[u].gone \subseteq 1..drawn
          BY <1>0, <2>1, <2>5 DEF Deletes, RowNumbers
    <3>3. RowNumbers(u)' BY <1>0, <3>1, <3>2 DEF RowNumbers, AC!NoUser, AC!NoChannel, AC!NoInfo
    <3>4. HeldNumbers(r)' BY <2>5 DEF Deletes, HeldNumbers, Holding
    <3> QED  BY <1>0, <1>1, <3>1, <3>3, <3>4
  <2>6. CASE AddsInfo(r, u)
    <3>1. /\ OthersKeep(r) /\ OthersOf(u) /\ drawn' = drawn /\ user'[u] = user[u] /\ channel'[u] = channel[u]
          /\ wanted'[u] = wanted[u] /\ user[u].there /\ oidc'[u].there /\ oidc'[u].token = 0
          /\ held'[r].user = held[r].user /\ held'[r].oidc = oidc'[u] /\ step[r] \in Holding
          BY <2>6 DEF AddsInfo, Holding, AC!CanRefer
    <3>2. RowNumbers(u)' BY <1>0, <2>1, <3>1 DEF RowNumbers
    <3>3. HeldNumbers(r)' BY <1>0, <2>1, <3>1 DEF HeldNumbers
    <3> QED  BY <1>0, <1>1, <3>1, <3>2, <3>3
  <2>7. CASE LogsIn(r, u) \/ Renewed(r, u)
    <3>1. /\ OthersKeep(r) /\ OthersOf(u) /\ drawn' \in {drawn, drawn + 1}
          /\ user'[u] = user[u] /\ channel'[u] = channel[u] /\ wanted'[u] = wanted[u]
          /\ user[u].there /\ held'[r] = held[r] /\ step[r] \in Holding
          BY <2>7 DEF LogsIn, Renewed, Holding, AC!CanRefer, DrawsNext
    <3>2. oidc'[u].there /\ oidc'[u].token \in 0..drawn'
          BY <1>0, <2>1, <2>7 DEF LogsIn, Renewed, DrawsNext, KindOf, HeldNumbers, Holding
    <3>3. RowNumbers(u)' BY <1>0, <2>1, <3>1, <3>2 DEF RowNumbers
    <3>4. HeldNumbers(r)' BY <1>0, <2>1, <3>1 DEF HeldNumbers
    <3> QED  BY <1>0, <1>1, <3>1, <3>3, <3>4
  <2> QED  BY <1>7, <2>2, <2>3, <2>4, <2>5, <2>6, <2>7
<1> QED  BY <1>3, <1>4, <1>5, <1>6, <1>7 DEF Effect

LEMMA OverlapsGrow == Effect => overlaps \subseteq overlaps'
<1>1. CASE Stays \/ \E r \in AccountCall : Ends(r) \/ ReadsChannel(r) \/ Enters(r) \/ UsesToken(r)
  BY <1>1 DEF Stays, Ends, ReadsChannel, Enters, UsesToken
<1>2. CASE \E u \in User : Expires(u) \/ Revokes(u) BY <1>2 DEF Expires, Revokes
<1>3. ASSUME NEW r \in AccountCall, NEW u \in User,
             ReadsRows(r, u) \/ MakesUser(r, u) \/ PutsChannel(r, u) \/ InsertsChannel(r, u) \/ SavesAsRead(r, u)
      PROVE  overlaps \subseteq overlaps'
  BY <1>3 DEF ReadsRows, MakesUser, PutsChannel, InsertsChannel, SavesAsRead, Marks
<1>4. ASSUME NEW r \in AccountCall, NEW u \in User,
             SetsPassword(r, u) \/ Deletes(r, u) \/ AddsInfo(r, u) \/ LogsIn(r, u) \/ Renewed(r, u)
      PROVE  overlaps \subseteq overlaps'
  BY <1>4 DEF SetsPassword, Deletes, AddsInfo, LogsIn, Renewed, Marks
<1> QED  BY <1>1, <1>2, <1>3, <1>4 DEF Effect

\* A request that holds an account held it before, has read it or has made it.
HoldsOn(r, u) ==
  /\ HoldsRow(r, u) /\ held'[r].user = held[r].user
  /\ Changes(r)' => Changes(r)
  /\ step'[r] = "put" => (step[r] = "put" /\ held'[r] = held[r]) \/ ReadsChannel(r)
  /\ Entering(r)' => Entering(r)
  /\ step'[r] \in Logged =>
       (step[r] \in Logged /\ held'[r].oidc.subjects = held[r].oidc.subjects) \/ AddsInfo(r, u)

LEMMA HoldsBefore ==
  ASSUME Effect, NEW r \in AccountCall, NEW u \in User, HoldsRow(r, u)'
  PROVE  HoldsOn(r, u) \/ ReadsRows(r, u) \/ MakesUser(r, u)
<1> USE DEF HoldsRow, Holding, Changes, Entering, Logged
<1>1. ASSUME step'[r] = step[r], held'[r] = held[r] PROVE HoldsOn(r, u)
  BY <1>1 DEF HoldsOn
<1>2. CASE Stays \/ \E w \in User : Expires(w) \/ Revokes(w) BY <1>1, <1>2 DEF Stays, Expires, Revokes
<1>3. ASSUME NEW q \in AccountCall, OthersKeep(q), q # r PROVE HoldsOn(r, u) BY <1>1, <1>3 DEF OthersKeep
<1>4. ASSUME NEW q \in AccountCall, Ends(q) \/ ReadsChannel(q) \/ Enters(q) \/ UsesToken(q)
      PROVE  HoldsOn(r, u)
  <2>1. CASE q # r BY <1>3, <1>4, <2>1 DEF Ends, ReadsChannel, Enters, UsesToken
  <2>2. CASE q = r /\ ReadsChannel(q)
    <3>1. /\ step[r] = "get" /\ step'[r] = "put" /\ held'[r].name = held[r].name /\ held'[r].user = held[r].user
          BY <2>2 DEF ReadsChannel
    <3> QED  BY <2>2, <3>1 DEF HoldsOn
  <2>3. CASE q = r /\ UsesToken(q)
    <3>1. /\ step[r] = "exchange" /\ step'[r] = "refresh" /\ held'[r].name = held[r].name
          /\ held'[r].user = held[r].user /\ held'[r].oidc.subjects = held[r].oidc.subjects
          BY <2>3 DEF UsesToken
    <3> QED  BY <3>1 DEF HoldsOn
  <2> QED  BY <1>4, <2>1, <2>2, <2>3 DEF Ends, Enters
<1>5. ASSUME NEW q \in AccountCall, NEW w \in User, ReadsRows(q, w) \/ MakesUser(q, w)
      PROVE  HoldsOn(r, u) \/ ReadsRows(r, u) \/ MakesUser(r, u)
  <2>1. CASE q # r BY <1>3, <1>5, <2>1 DEF ReadsRows, MakesUser
  <2>2. CASE q = r
    <3>1. held'[q].name = w BY <1>5 DEF ReadsRows, MakesUser
    <3> QED  BY <1>5, <2>2, <3>1
  <2> QED  BY <2>1, <2>2
<1>6. ASSUME NEW q \in AccountCall, NEW w \in User,
             \/ PutsChannel(q, w) \/ InsertsChannel(q, w) \/ SavesAsRead(q, w) \/ SetsPassword(q, w)
             \/ Deletes(q, w) \/ AddsInfo(q, w) \/ LogsIn(q, w) \/ Renewed(q, w)
      PROVE  HoldsOn(r, u)
  <2>1. CASE q # r
    BY <1>3, <1>6, <2>1 DEF PutsChannel, InsertsChannel, SavesAsRead, SetsPassword, Deletes, AddsInfo, LogsIn, Renewed
  <2>2. CASE q = r /\ (PutsChannel(q, w) \/ InsertsChannel(q, w))
    BY <2>2 DEF PutsChannel, InsertsChannel, HoldsOn
  <2>3. CASE q = r /\ (SavesAsRead(q, w) \/ SetsPassword(q, w) \/ Deletes(q, w) \/ LogsIn(q, w) \/ Renewed(q, w))
    BY <2>3 DEF SavesAsRead, SetsPassword, Deletes, LogsIn, Renewed, HoldsOn
  <2>4. CASE q = r /\ AddsInfo(q, w)
    <3>1. /\ step[r] = "info" /\ step'[r] = "login" /\ held'[r].name = w /\ held[r].name = w
          /\ held'[r].user = held[r].user
          BY <2>4 DEF AddsInfo
    <3> QED  BY <2>4, <3>1 DEF HoldsOn
  <2> QED  BY <1>6, <2>1, <2>2, <2>3, <2>4
<1> QED  BY <1>2, <1>4, <1>5, <1>6 DEF Effect

\* Who changes an account, and the row of its user.
LEMMA AccountChanges ==
  ASSUME Effect, NEW u \in User
  PROVE  \/ UserKeeps(u)
         \/ oidc'[u] # oidc[u] /\ user'[u] = user[u] /\ channel'[u] = channel[u] /\ wanted'[u] = wanted[u]
         \/ \E r \in AccountCall : \/ MakesUser(r, u) \/ SavesAsRead(r, u) \/ SetsPassword(r, u) \/ Deletes(r, u)
                                  \/ PutsChannel(r, u) \/ InsertsChannel(r, u)
<1>1. CASE Stays \/ \E r \in AccountCall : Ends(r) \/ ReadsChannel(r) \/ Enters(r) \/ UsesToken(r)
  BY <1>1 DEF Stays, Ends, ReadsChannel, Enters, UsesToken, AccountRowsKept, UserKeeps
<1>2. CASE \E w \in User : Expires(w) \/ Revokes(w) BY <1>2 DEF Expires, Revokes, AccountRowsKept, UserKeeps
<1>3. ASSUME NEW r \in AccountCall, NEW w \in User,
             ReadsRows(r, w) \/ AddsInfo(r, w) \/ LogsIn(r, w) \/ Renewed(r, w)
      PROVE  user'[u] = user[u] /\ channel'[u] = channel[u] /\ wanted'[u] = wanted[u]
  BY <1>3 DEF ReadsRows, AddsInfo, LogsIn, Renewed, AccountRowsKept
<1>4. ASSUME NEW r \in AccountCall, NEW w \in User,
             \/ MakesUser(r, w) \/ SavesAsRead(r, w) \/ SetsPassword(r, w) \/ Deletes(r, w)
             \/ PutsChannel(r, w) \/ InsertsChannel(r, w)
      PROVE  \/ UserKeeps(u)
             \/ \/ MakesUser(r, u) \/ SavesAsRead(r, u) \/ SetsPassword(r, u) \/ Deletes(r, u)
                \/ PutsChannel(r, u) \/ InsertsChannel(r, u)
  <2>1. OthersOf(w) BY <1>4 DEF MakesUser, SavesAsRead, SetsPassword, Deletes, PutsChannel, InsertsChannel
  <2> QED  BY <1>4, <2>1 DEF OthersOf
<1> QED  BY <1>1, <1>2, <1>3, <1>4 DEF Effect, UserKeeps

LEMMA UserChanges ==
  ASSUME Effect, NEW u \in User
  PROVE  \/ user'[u] = user[u]
         \/ \E r \in AccountCall : MakesUser(r, u) \/ SavesAsRead(r, u) \/ SetsPassword(r, u) \/ Deletes(r, u)
<1>1. ASSUME NEW r \in AccountCall, PutsChannel(r, u) \/ InsertsChannel(r, u) PROVE user'[u] = user[u]
      BY <1>1 DEF PutsChannel, InsertsChannel
<1> QED  BY <1>1, AccountChanges DEF UserKeeps

LEMMA HeldStep ==
  ASSUME KindsInv, HeldInv, Effect
  PROVE  HeldInv'
<1> SUFFICES ASSUME NEW u \in User, NEW r \in AccountCall, HoldsRow(r, u)', Settled(u)'
             PROVE  user'[u].there /\ user'[u].id = held'[r].user.id
    BY DEF HeldInv
<1>1. Settled(u) BY OverlapsGrow DEF Settled
<1>2. ASSUME NEW q \in AccountCall, HoldsRow(q, u) PROVE user[u].there /\ user[u].id = held[q].user.id
      BY <1>1, <1>2 DEF HeldInv
<1>3. CASE user'[u] = user[u]
  <2>1. CASE HoldsOn(r, u) BY <1>2, <1>3, <2>1 DEF HoldsOn
  <2>2. CASE ReadsRows(r, u) BY <1>3, <2>2 DEF ReadsRows
  <2>3. CASE MakesUser(r, u) BY <1>3, <2>3 DEF MakesUser
  <2> QED  BY <2>1, <2>2, <2>3, HoldsBefore
<1>4. ASSUME NEW q \in AccountCall, MakesUser(q, u) PROVE user'[u].there /\ user'[u].id = held'[r].user.id
  <2>1. CASE q = r BY <1>4, <2>1 DEF MakesUser
  <2>2. CASE q # r
    <3>1. HoldsRow(r, u) BY <1>4, <2>2 DEF MakesUser, OthersKeep, HoldsRow
    <3> QED  BY <1>2, <1>4, <3>1 DEF MakesUser
  <2> QED  BY <2>1, <2>2
<1>5. ASSUME NEW q \in AccountCall, SavesAsRead(q, u) \/ SetsPassword(q, u)
      PROVE  user'[u].there /\ user'[u].id = held'[r].user.id
  <2>1. HoldsRow(q, u) /\ user'[u].id = held[q].user.id /\ UNCHANGED held
        BY <1>5 DEF SavesAsRead, SetsPassword, HoldsRow, Holding
  <2>2. user'[u].there
    <3>1. held[q].user.there BY <2>1 DEF KindsInv, KindOf, HoldsRow
    <3> QED  BY <1>5, <3>1 DEF SavesAsRead, SetsPassword
  <2>3. step[q] \in Holding /\ (q # r => step'[r] = step[r])
        BY <1>5, <2>1 DEF SavesAsRead, SetsPassword, OthersKeep, HoldsRow
  <2>4. HoldsRow(r, u) BY <2>1, <2>3 DEF HoldsRow
  <2> QED  BY <1>2, <2>1, <2>2, <2>4
<1>6. ASSUME NEW q \in AccountCall, Deletes(q, u) PROVE FALSE
  <2>1. CASE q = r BY <1>6, <2>1 DEF Deletes, HoldsRow, Holding
  <2>2. CASE q # r
    <3>1. HoldsRow(r, u) BY <1>6, <2>2 DEF Deletes, OthersKeep, HoldsRow
    <3> QED  BY <1>6, <2>2, <3>1 DEF Deletes, Marks, Settled
  <2> QED  BY <2>1, <2>2
<1> QED  BY <1>3, <1>4, <1>5, <1>6, UserChanges

\* The last change of a password stays in force.
LEMMA PasswordStep ==
  ASSUME KindsInv', HeldInv, AnswersInv, Effect, NEW u \in User
  PROVE  PasswordInv(u)'
<1> DEFINE Good == /\ user'[u].there => user'[u].password = wanted'[u].password
                   /\ \A r \in AccountCall : HoldsRow(r, u)' /\ Changes(r)' => held'[r].user.password = wanted'[u].password
<1> SUFFICES ASSUME Settled(u)', <<u, "password">> \notin overlaps' PROVE Good
    BY DEF PasswordInv
<1>1. Settled(u) /\ <<u, "password">> \notin overlaps BY OverlapsGrow DEF Settled
<1>2. /\ user[u].there => user[u].password = wanted[u].password
      /\ \A r \in AccountCall : HoldsRow(r, u) /\ Changes(r) => held[r].user.password = wanted[u].password
      BY <1>1 DEF AnswersInv, PasswordInv
<1>3. ASSUME user'[u] = user[u], wanted'[u].password = wanted[u].password PROVE Good
  <2>1. ASSUME NEW r \in AccountCall, HoldsRow(r, u)', Changes(r)'
        PROVE  held'[r].user.password = wanted[u].password
    <3>1. CASE HoldsOn(r, u) BY <1>2, <2>1, <3>1 DEF HoldsOn
    <3>2. CASE ReadsRows(r, u) BY <1>2, <3>2 DEF ReadsRows
    <3>3. CASE MakesUser(r, u) BY <2>1, <3>3 DEF MakesUser, Changes
    <3> QED  BY <2>1, <3>1, <3>2, <3>3, HoldsBefore
  <2> QED  BY <1>2, <1>3, <2>1
<1>4. ASSUME NEW q \in AccountCall, MakesUser(q, u) PROVE Good
  <2>1. ASSUME NEW r \in AccountCall, HoldsRow(r, u)', Changes(r)' PROVE FALSE
    <3>1. CASE r = q BY <1>4, <2>1, <3>1 DEF MakesUser, Changes
    <3>2. CASE r # q
      <4>1. HoldsRow(r, u) BY <1>4, <2>1, <3>2 DEF MakesUser, OthersKeep, HoldsRow
      <4> QED  BY <1>1, <1>4, <4>1 DEF MakesUser, HeldInv
    <3> QED  BY <3>1, <3>2
  <2> QED  BY <1>4, <2>1 DEF MakesUser
<1>5. ASSUME NEW q \in AccountCall, SavesAsRead(q, u) PROVE Good
  <2>1. HoldsRow(q, u) /\ Changes(q) BY <1>5 DEF SavesAsRead, HoldsRow, Holding, Changes
  <2>2. user'[u].password = wanted[u].password BY <1>2, <1>5, <2>1 DEF SavesAsRead
  <2>3. ASSUME NEW r \in AccountCall, HoldsRow(r, u)', Changes(r)' PROVE HoldsRow(r, u) /\ Changes(r)
    <3>1. CASE r = q BY <2>1, <3>1
    <3>2. CASE r # q BY <1>5, <2>3, <3>2 DEF SavesAsRead, OthersKeep, HoldsRow, Changes
    <3> QED  BY <3>1, <3>2
  <2> QED  BY <1>2, <1>5, <2>2, <2>3 DEF SavesAsRead
<1>6. ASSUME NEW q \in AccountCall, SetsPassword(q, u) PROVE Good
  <2>1. ASSUME NEW r \in AccountCall, HoldsRow(r, u)', Changes(r)' PROVE FALSE
    <3>1. CASE r = q BY <1>6, <2>1, <3>1 DEF SetsPassword, Changes
    <3>2. CASE r # q
      <4>1. HoldsRow(r, u) BY <1>6, <2>1, <3>2 DEF SetsPassword, OthersKeep, HoldsRow
      <4> QED  BY <1>6, <3>2, <4>1 DEF SetsPassword, Marks
    <3> QED  BY <3>1, <3>2
  <2> QED  BY <1>6, <2>1 DEF SetsPassword
<1>7. ASSUME NEW q \in AccountCall, Deletes(q, u) PROVE Good
  <2>1. ASSUME NEW r \in AccountCall, HoldsRow(r, u)', Changes(r)' PROVE FALSE
    <3>1. CASE r = q BY <1>7, <2>1, <3>1 DEF Deletes, Changes
    <3>2. CASE r # q
      <4>1. HoldsRow(r, u) BY <1>7, <2>1, <3>2 DEF Deletes, OthersKeep, HoldsRow
      <4> QED  BY <1>7, <3>2, <4>1 DEF Deletes, Marks, Settled
    <3> QED  BY <3>1, <3>2
  <2>2. ~user'[u].there BY <1>7 DEF Deletes, AC!NoUser
  <2> QED  BY <2>1, <2>2
<1>8. ASSUME NEW q \in AccountCall, PutsChannel(q, u) \/ InsertsChannel(q, u) PROVE Good
  <2>1. user'[u] = user[u] /\ wanted'[u].password = wanted[u].password BY <1>8 DEF PutsChannel, InsertsChannel
  <2> QED  BY <1>3, <2>1
<1> HIDE DEF Good
<1> QED  BY <1>3, <1>4, <1>5, <1>6, <1>7, <1>8, AccountChanges DEF UserKeeps

\* The last change of a channel stays in force.
LEMMA ChannelStep ==
  ASSUME HeldInv, AnswersInv, Effect, NEW u \in User
  PROVE  ChannelInv(u)'
<1> DEFINE Put(r) == /\ channel'[u].there
                     /\ held'[r].channel.role = wanted'[u].role /\ held'[r].channel.name = wanted'[u].name
           Good == /\ channel'[u].there => channel'[u].role = wanted'[u].role /\ channel'[u].name = wanted'[u].name
                   /\ \A r \in AccountCall : HoldsRow(r, u)' /\ step'[r] = "put" => Put(r)
<1> SUFFICES ASSUME Settled(u)', <<u, "channel">> \notin overlaps' PROVE Good
    BY DEF ChannelInv
<1>1. Settled(u) /\ <<u, "channel">> \notin overlaps BY OverlapsGrow DEF Settled
<1>2. /\ channel[u].there => channel[u].role = wanted[u].role /\ channel[u].name = wanted[u].name
      /\ \A r \in AccountCall : HoldsRow(r, u) /\ step[r] = "put" =>
           /\ channel[u].there
           /\ held[r].channel.role = wanted[u].role /\ held[r].channel.name = wanted[u].name
      BY <1>1 DEF AnswersInv, ChannelInv
<1>3. ASSUME channel'[u] = channel[u], wanted'[u].role = wanted[u].role, wanted'[u].name = wanted[u].name PROVE Good
  <2>1. ASSUME NEW r \in AccountCall, HoldsRow(r, u)', step'[r] = "put" PROVE Put(r)
    <3>1. CASE HoldsOn(r, u) /\ step[r] = "put" /\ held'[r] = held[r] BY <1>2, <1>3, <3>1 DEF HoldsOn
    <3>2. CASE HoldsOn(r, u) /\ ReadsChannel(r)
      <4>1. channel[u].there /\ held'[r].channel = channel[u] BY <3>2 DEF HoldsOn, HoldsRow, ReadsChannel
      <4> QED  BY <1>2, <1>3, <4>1
    <3>3. CASE ReadsRows(r, u) \/ MakesUser(r, u) BY <2>1, <3>3 DEF ReadsRows, MakesUser
    <3> HIDE DEF Put
    <3> QED  BY <2>1, <3>1, <3>2, <3>3, HoldsBefore DEF HoldsOn
  <2> QED  BY <1>2, <1>3, <2>1
<1>4. ASSUME NEW q \in AccountCall, PutsChannel(q, u) PROVE Good
  <2>1. ASSUME NEW r \in AccountCall, HoldsRow(r, u)', step'[r] = "put" PROVE FALSE
    <3>1. CASE r = q BY <1>4, <2>1, <3>1 DEF PutsChannel
    <3>2. CASE r # q
      <4>1. HoldsRow(r, u) BY <1>4, <2>1, <3>2 DEF PutsChannel, OthersKeep, HoldsRow
      <4> QED  BY <1>4, <3>2, <4>1 DEF PutsChannel, Marks
    <3> QED  BY <3>1, <3>2
  <2>2. HoldsRow(q, u) /\ step[q] = "put" BY <1>4 DEF PutsChannel, HoldsRow, Holding
  <2>3. held[q].channel.role = wanted[u].role /\ held[q].channel.name = wanted[u].name BY <1>2, <2>2
  <2>4. channel'[u].role = wanted'[u].role /\ channel'[u].name = wanted'[u].name BY <1>4, <2>3 DEF PutsChannel
  <2> QED  BY <2>1, <2>4
<1>5. ASSUME NEW q \in AccountCall, InsertsChannel(q, u) PROVE Good
  <2>1. ASSUME NEW r \in AccountCall, HoldsRow(r, u)', step'[r] = "put" PROVE FALSE
    <3>1. CASE r = q BY <1>5, <2>1, <3>1 DEF InsertsChannel
    <3>2. CASE r # q
      <4>1. HoldsRow(r, u) /\ step[r] = "put" BY <1>5, <2>1, <3>2 DEF InsertsChannel, OthersKeep, HoldsRow
      <4> QED  BY <1>2, <1>5, <4>1 DEF InsertsChannel
    <3> QED  BY <3>1, <3>2
  <2> QED  BY <1>5, <2>1 DEF InsertsChannel
<1>6. ASSUME NEW q \in AccountCall, MakesUser(q, u) \/ SavesAsRead(q, u) \/ SetsPassword(q, u) PROVE Good
  <2>1. channel'[u] = channel[u] /\ wanted'[u].role = wanted[u].role /\ wanted'[u].name = wanted[u].name
        BY <1>6 DEF MakesUser, SavesAsRead, SetsPassword
  <2> HIDE DEF Good
  <2> QED  BY <1>3, <2>1
<1>7. ASSUME NEW q \in AccountCall, Deletes(q, u) PROVE Good
  <2>1. ASSUME NEW r \in AccountCall, HoldsRow(r, u)', step'[r] = "put" PROVE FALSE
    <3>1. CASE r = q BY <1>7, <2>1, <3>1 DEF Deletes
    <3>2. CASE r # q
      <4>1. HoldsRow(r, u) BY <1>7, <2>1, <3>2 DEF Deletes, OthersKeep, HoldsRow
      <4> QED  BY <1>7, <3>2, <4>1 DEF Deletes, Marks, Settled
    <3> QED  BY <3>1, <3>2
  <2>2. ~channel'[u].there BY <1>7 DEF Deletes, AC!NoChannel
  <2> QED  BY <2>1, <2>2
<1> HIDE DEF Good
<1> QED  BY <1>3, <1>4, <1>5, <1>6, <1>7, AccountChanges DEF UserKeeps

\* A deleted account stays deleted.
LEMMA DeletedStep ==
  ASSUME AccountsTyped, NumbersInv, NumbersInv', HeldInv, AnswersInv, Effect
  PROVE  AC!DeletedStayOut'
<1> SUFFICES ASSUME NEW u \in User, Settled(u)' PROVE user'[u].id \notin wanted'[u].gone
    BY DEF AC!DeletedStayOut, AC!Settled, Settled
<1>1. Settled(u) BY OverlapsGrow DEF Settled
<1>2. user[u].id \notin wanted[u].gone BY <1>1 DEF AnswersInv, AC!DeletedStayOut, AC!Settled, Settled
<1>3. wanted[u].gone \subseteq 1..drawn /\ wanted'[u].gone \subseteq 1..drawn' /\ drawn \in Nat
      BY DEF NumbersInv, RowNumbers, AccountsTyped
<1>4. ASSUME NEW q \in AccountCall, MakesUser(q, u) PROVE user'[u].id \notin wanted'[u].gone
      BY <1>3, <1>4 DEF MakesUser
<1>5. ASSUME NEW q \in AccountCall, SavesAsRead(q, u) \/ SetsPassword(q, u) PROVE user'[u].id \notin wanted'[u].gone
  <2>1. HoldsRow(q, u) BY <1>5 DEF SavesAsRead, SetsPassword, HoldsRow, Holding
  <2>2. user'[u].id = user[u].id BY <1>1, <1>5, <2>1 DEF SavesAsRead, SetsPassword, HeldInv
  <2>3. wanted'[u].gone = wanted[u].gone BY <1>5 DEF SavesAsRead, SetsPassword
  <2> QED  BY <1>2, <2>2, <2>3
<1>6. ASSUME NEW q \in AccountCall, Deletes(q, u) PROVE user'[u].id \notin wanted'[u].gone
  <2>1. user'[u].id = 0 BY <1>6 DEF Deletes, AC!NoUser
  <2> QED  BY <1>3, <2>1
<1>7. ASSUME NEW q \in AccountCall, PutsChannel(q, u) \/ InsertsChannel(q, u)
      PROVE  user'[u].id \notin wanted'[u].gone
      BY <1>2, <1>7 DEF PutsChannel, InsertsChannel
<1> QED  BY <1>2, <1>4, <1>5, <1>6, <1>7, AccountChanges DEF UserKeeps

LEMMA AnswersStep ==
  ASSUME AccountsTyped, KindsInv', NumbersInv, NumbersInv', HeldInv, AnswersInv, Effect
  PROVE  AnswersInv'
BY PasswordStep, ChannelStep, DeletedStep DEF AnswersInv

\* Who changes what OpenID Connect says of an account.
LEMMA InfoChanges ==
  ASSUME Effect, NEW u \in User
  PROVE  \/ oidc'[u].there = oidc[u].there /\ oidc'[u].subjects = oidc[u].subjects /\ oidc'[u].token = oidc[u].token
         \/ \E r \in AccountCall : AddsInfo(r, u) \/ LogsIn(r, u) \/ Renewed(r, u) \/ Deletes(r, u)
<1>1. CASE Stays \/ \E r \in AccountCall : Ends(r) \/ ReadsChannel(r) \/ Enters(r) \/ UsesToken(r)
  BY <1>1 DEF Stays, Ends, ReadsChannel, Enters, UsesToken, AccountRowsKept
<1>2. CASE \E w \in User : Revokes(w) BY <1>2 DEF Revokes, AccountRowsKept
<1>3. ASSUME NEW w \in User, Expires(w)
      PROVE  oidc'[u].there = oidc[u].there /\ oidc'[u].subjects = oidc[u].subjects /\ oidc'[u].token = oidc[u].token
  <2>1. CASE w = u BY <1>3, <2>1 DEF Expires
  <2>2. CASE w # u BY <1>3, <2>2 DEF Expires, OthersOf, UserKeeps
  <2> QED  BY <2>1, <2>2
<1>4. ASSUME NEW r \in AccountCall, NEW w \in User,
             \/ ReadsRows(r, w) \/ MakesUser(r, w) \/ PutsChannel(r, w) \/ InsertsChannel(r, w)
             \/ SavesAsRead(r, w) \/ SetsPassword(r, w)
      PROVE  oidc'[u] = oidc[u]
  BY <1>4 DEF ReadsRows, MakesUser, PutsChannel, InsertsChannel, SavesAsRead, SetsPassword, AccountRowsKept
<1>5. ASSUME NEW r \in AccountCall, NEW w \in User,
             AddsInfo(r, w) \/ LogsIn(r, w) \/ Renewed(r, w) \/ Deletes(r, w)
      PROVE  \/ oidc'[u] = oidc[u]
             \/ AddsInfo(r, u) \/ LogsIn(r, u) \/ Renewed(r, u) \/ Deletes(r, u)
  <2>1. OthersOf(w) BY <1>5 DEF AddsInfo, LogsIn, Renewed, Deletes
  <2> QED  BY <1>5, <2>1 DEF OthersOf, UserKeeps
<1> QED  BY <1>1, <1>2, <1>3, <1>4, <1>5 DEF Effect

\* As long as no account was deleted while it was held, its subjects are set once.
LEMMA SubjectsKept ==
  ASSUME AccountsTyped, AccountsTyped', KindsInv, EnteringInv, Effect, NEW u \in User, Settled(u)
  PROVE  \/ oidc'[u].there = oidc[u].there /\ oidc'[u].subjects = oidc[u].subjects
         \/ \E r \in AccountCall : AddsInfo(r, u) \/ Deletes(r, u)
<1>1. ASSUME NEW r \in AccountCall, LogsIn(r, u) \/ Renewed(r, u)
      PROVE  oidc'[u].there = oidc[u].there /\ oidc'[u].subjects = oidc[u].subjects
  <2>1. HoldsRow(r, u) /\ step[r] \in Logged BY <1>1 DEF LogsIn, Renewed, HoldsRow, Holding, Logged
  <2>2. oidc[u].there /\ oidc[u].subjects = held[r].oidc.subjects BY <2>1 DEF EnteringInv, InfoIsHeld
  <2>3. held[r].oidc.there BY <2>1 DEF KindsInv, KindOf, Logged
  <2>4. oidc'[u].there /\ oidc'[u].subjects = held[r].oidc.subjects BY <1>1, <2>3 DEF LogsIn, Renewed
  <2>5. oidc[u].there \in BOOLEAN /\ oidc'[u].there \in BOOLEAN BY DEF AccountsTyped, InfoRow
  <2> QED  BY <2>2, <2>4, <2>5
<1> QED  BY <1>1, InfoChanges

\* A request that enters did so before, or begins.
LEMMA EntersBefore ==
  ASSUME AccountsTyped', KindsInv', Effect, NEW r \in AccountCall, Entering(r)'
  PROVE  \/ Enters(r)
         \/ /\ Entering(r)
            /\ step'[r] # "first" =>
                 \/ step[r] # "first" /\ held'[r].name = held[r].name /\ held'[r].user = held[r].user
                 \/ \E u \in User : MakesUser(r, u)
<1> DEFINE Same == step'[r] = step[r] /\ held'[r] = held[r]
<1>1. CASE step'[r] = "first"
  <2>1. CASE Stays \/ \E w \in User : Expires(w) \/ Revokes(w) BY <1>1, <2>1 DEF Stays, Expires, Revokes, Entering
  <2>2. ASSUME NEW q \in AccountCall, q # r, OthersKeep(q) PROVE Entering(r)
    BY <1>1, <2>2 DEF OthersKeep, Entering
  <2>3. ASSUME NEW q \in AccountCall, Ends(q) \/ ReadsChannel(q) \/ Enters(q) \/ UsesToken(q)
        PROVE  Entering(r) \/ Enters(r)
    <3>1. CASE q # r BY <2>2, <2>3, <3>1 DEF Ends, ReadsChannel, Enters, UsesToken
    <3>2. CASE q = r BY <1>1, <2>3, <3>2 DEF Ends, ReadsChannel, UsesToken
    <3> QED  BY <3>1, <3>2
  <2>4. ASSUME NEW q \in AccountCall, NEW w \in User,
               \/ ReadsRows(q, w) \/ MakesUser(q, w) \/ PutsChannel(q, w) \/ InsertsChannel(q, w)
               \/ SavesAsRead(q, w) \/ SetsPassword(q, w)
        PROVE  Entering(r)
    <3>1. CASE q # r
      BY <2>2, <2>4, <3>1 DEF ReadsRows, MakesUser, PutsChannel, InsertsChannel, SavesAsRead, SetsPassword
    <3>2. CASE q = r
      BY <1>1, <2>4, <3>2 DEF ReadsRows, MakesUser, PutsChannel, InsertsChannel, SavesAsRead, SetsPassword
    <3> QED  BY <3>1, <3>2
  <2>5. ASSUME NEW q \in AccountCall, NEW w \in User,
               Deletes(q, w) \/ AddsInfo(q, w) \/ LogsIn(q, w) \/ Renewed(q, w)
        PROVE  Entering(r)
    <3>1. CASE q # r BY <2>2, <2>5, <3>1 DEF Deletes, AddsInfo, LogsIn, Renewed
    <3>2. CASE q = r BY <1>1, <2>5, <3>2 DEF Deletes, AddsInfo, LogsIn, Renewed
    <3> QED  BY <3>1, <3>2
  <2> QED  BY <1>1, <2>1, <2>3, <2>4, <2>5 DEF Effect
<1>2. CASE step'[r] # "first"
  <2> DEFINE u == held'[r].name
  <2>1. step'[r] \in {"insert", "info"} /\ Calls[r].kind = "login" BY <1>2 DEF Entering
  <2>2. u \in User BY DEF AccountsTyped, HeldRows
  <2>3. PICK w \in User : w = u BY <2>2
  <2>4. HoldsRow(r, w)' BY <2>1, <2>3 DEF HoldsRow, Holding
  <2>5. CASE HoldsOn(r, w)
    <3>1. HoldsRow(r, w) /\ held'[r].user = held[r].user /\ Entering(r) BY <2>5 DEF HoldsOn
    <3>2. step[r] # "first" /\ held[r].name = w BY <3>1 DEF HoldsRow, Holding
    <3> QED  BY <2>3, <3>1, <3>2
  <2>6. CASE ReadsRows(r, w) BY <2>1, <2>6 DEF ReadsRows
  <2>7. CASE MakesUser(r, w) BY <2>1, <2>7 DEF MakesUser, Entering
  <2> QED  BY <2>4, <2>5, <2>6, <2>7, HoldsBefore
<1> QED  BY <1>1, <1>2

LEMMA InfoStep ==
  ASSUME AccountsTyped, AccountsTyped', KindsInv, KindsInv', NumbersInv, HeldInv, EnteringInv, Effect
  PROVE  InfoIsHeld'
<1> SUFFICES ASSUME NEW u \in User, NEW r \in AccountCall, Settled(u)', HoldsRow(r, u)'
             PROVE  /\ step'[r] \in Logged => oidc'[u].there /\ oidc'[u].subjects = held'[r].oidc.subjects
                    /\ Entering(r)' => ~oidc'[u].there
    BY DEF InfoIsHeld
<1>1. Settled(u) BY OverlapsGrow DEF Settled
<1>2. ASSUME NEW q \in AccountCall, HoldsRow(q, u)
      PROVE  /\ step[q] \in Logged => oidc[u].there /\ oidc[u].subjects = held[q].oidc.subjects
             /\ Entering(q) => ~oidc[u].there
             /\ user[u].there /\ user[u].id = held[q].user.id
      BY <1>1, <1>2 DEF EnteringInv, InfoIsHeld, HeldInv
<1>3. ASSUME NEW q \in AccountCall, Deletes(q, u) PROVE FALSE
  <2>1. CASE r = q BY <1>3, <2>1 DEF Deletes, HoldsRow, Holding
  <2>2. CASE r # q
    <3>1. HoldsRow(r, u) BY <1>3, <2>2 DEF Deletes, OthersKeep, HoldsRow
    <3> QED  BY <1>3, <2>2, <3>1 DEF Deletes, Marks, Settled
  <2> QED  BY <2>1, <2>2
<1>4. ASSUME NEW q \in AccountCall, AddsInfo(q, u)
      PROVE  /\ step'[r] \in Logged => oidc'[u].there /\ oidc'[u].subjects = held'[r].oidc.subjects
             /\ Entering(r)' => ~oidc'[u].there
  <2>1. CASE r = q BY <1>4, <2>1 DEF AddsInfo, Entering
  <2>2. CASE r # q
    <3>1. HoldsRow(q, u) /\ step[q] = "info" BY <1>4 DEF AddsInfo, HoldsRow, Holding
    <3>2. Entering(q) BY <3>1 DEF Entering, KindsInv, KindOf
    <3>3. HoldsRow(r, u) /\ step'[r] = step[r] BY <1>4, <2>2 DEF AddsInfo, OthersKeep, HoldsRow
    <3>4. step[r] \notin Logged BY <1>2, <3>1, <3>2, <3>3
    <3>5. ~Entering(r)
      <4>1. held[q].name = held[r].name /\ held[q].user.id = held[r].user.id BY <1>2, <3>1, <3>3 DEF HoldsRow
      <4>2. step[r] # "first" BY <3>3 DEF HoldsRow, Holding
      <4> QED  BY <2>2, <3>1, <3>2, <4>1, <4>2 DEF EnteringInv, OneEnters
    <3> QED  BY <3>3, <3>4, <3>5 DEF Entering
  <2> QED  BY <2>1, <2>2
<1>5. CASE oidc'[u].there = oidc[u].there /\ oidc'[u].subjects = oidc[u].subjects
  <2>1. CASE HoldsOn(r, u)
    <3>1. ASSUME NEW q \in AccountCall, q = r, AddsInfo(q, u) PROVE oidc'[u].there /\ oidc'[u].subjects = held'[r].oidc.subjects
          BY <3>1 DEF AddsInfo
    <3> QED  BY <1>2, <1>5, <2>1, <3>1 DEF HoldsOn
  <2>2. CASE ReadsRows(r, u)
    <3>1. oidc'[u] = oidc[u] /\ held'[r].oidc = oidc[u] /\ ~Entering(r)'
          BY <2>2 DEF ReadsRows, AccountRowsKept, Entering
    <3>2. step'[r] \in Logged => held'[r].oidc.there BY DEF KindsInv, KindOf, Logged
    <3> QED  BY <3>1, <3>2
  <2>3. CASE MakesUser(r, u)
    <3>1. oidc'[u] = oidc[u] /\ step'[r] \notin Logged BY <2>3 DEF MakesUser, Logged
    <3>2. ~oidc[u].there BY <2>3 DEF MakesUser, NumbersInv, RowNumbers
    <3> QED  BY <3>1, <3>2
  <2> QED  BY <2>1, <2>2, <2>3, HoldsBefore
<1> QED  BY <1>1, <1>3, <1>4, <1>5, SubjectsKept

LEMMA EnteringStep ==
  ASSUME AccountsTyped, AccountsTyped', KindsInv, KindsInv', NumbersInv, HeldInv, EnteringInv, Effect
  PROVE  EnteringInv'
<1>0. ASSUME NEW sub, Twice(sub) PROVE Twice(sub)' BY <1>0, OverlapsGrow DEF Twice
<1>1. ASSUME NEW q \in AccountCall, NEW u \in User, AddsInfo(q, u)
      PROVE  Entering(q) /\ ~Entering(q)' /\ Calls[q].subject \in Subject
      BY <1>1, AccountsAssumption DEF AddsInfo, Entering, KindsInv, KindOf, AC!RequestType
<1>2. ASSUME NEW r \in AccountCall, NEW ro \in AccountCall \ {r}, Entering(r)', Entering(ro)', Enters(r),
             Calls[r].subject = Calls[ro].subject
      PROVE  Twice(Calls[r].subject)'
  <2>1. Entering(ro) BY <1>2 DEF Enters, OthersKeep, Entering
  <2> QED  BY <1>2, <2>1 DEF Enters
<1>3. ASSUME NEW r \in AccountCall, NEW ro \in AccountCall \ {r}, Entering(ro)', step'[ro] # "first",
             NEW u \in User, MakesUser(r, u)
      PROVE  held'[r].user.id # held'[ro].user.id
  <2>1. step'[ro] = step[ro] /\ held'[ro] = held[ro] BY <1>3 DEF MakesUser, OthersKeep
  <2>2. step[ro] \in Holding BY <1>3, <2>1 DEF Entering, Holding
  <2>3. held[ro].user.id \in 1..drawn /\ drawn \in Nat BY <2>2 DEF NumbersInv, HeldNumbers, AccountsTyped
  <2>4. held'[r].user.id = drawn + 1 BY <1>3 DEF MakesUser
  <2> QED  BY <2>1, <2>3, <2>4
<1>4. OneEnters'
  <2> SUFFICES ASSUME NEW r \in AccountCall, NEW ro \in AccountCall \ {r}, Entering(r)', Entering(ro)'
               PROVE  /\ Calls[r].subject = Calls[ro].subject => Twice(Calls[r].subject)'
                      /\ step'[r] # "first" /\ step'[ro] # "first" /\ held'[r].name = held'[ro].name =>
                           held'[r].user.id # held'[ro].user.id
      BY DEF OneEnters
  <2>1. Calls[r].subject = Calls[ro].subject => Twice(Calls[r].subject)'
    <3>1. CASE Enters(r) BY <1>2, <3>1
    <3>2. CASE Enters(ro) BY <1>2, <3>2
    <3>3. CASE Entering(r) /\ Entering(ro) BY <1>0, <3>3 DEF EnteringInv, OneEnters
    <3> QED  BY <3>1, <3>2, <3>3, EntersBefore
  <2>2. ASSUME step'[r] # "first", step'[ro] # "first", held'[r].name = held'[ro].name
        PROVE  held'[r].user.id # held'[ro].user.id
    <3>1. ~Enters(r) /\ ~Enters(ro) BY <2>2 DEF Enters
    <3>2. CASE \E u \in User : MakesUser(r, u) BY <1>3, <2>2, <3>2
    <3>3. CASE \E u \in User : MakesUser(ro, u) BY <1>3, <2>2, <3>3
    <3>4. CASE /\ Entering(r) /\ step[r] # "first" /\ held'[r].name = held[r].name /\ held'[r].user = held[r].user
               /\ Entering(ro) /\ step[ro] # "first" /\ held'[ro].name = held[ro].name /\ held'[ro].user = held[ro].user
      BY <2>2, <3>4 DEF EnteringInv, OneEnters
    <3> QED  BY <2>2, <3>1, <3>2, <3>3, <3>4, EntersBefore
  <2> QED  BY <2>1, <2>2
<1>5. EntersOnce'
  <2> SUFFICES ASSUME NEW r \in AccountCall, NEW u \in User, Entering(r)', Settled(u)', Calls[r].subject \in oidc'[u].subjects
               PROVE  Twice(Calls[r].subject)'
      BY DEF EntersOnce
  <2>1. Settled(u) BY OverlapsGrow DEF Settled
  <2>2. CASE oidc'[u].there = oidc[u].there /\ oidc'[u].subjects = oidc[u].subjects
    <3>1. CASE Enters(r)
      <4>1. u \notin AC!AccountsOf(Calls[r].subject) BY <3>1 DEF Enters
      <4>2. ~oidc[u].there BY <2>2, <4>1 DEF AC!AccountsOf
      <4> QED  BY <2>2, <4>2 DEF NumbersInv, RowNumbers
    <3>2. CASE Entering(r) BY <1>0, <2>1, <2>2, <3>2 DEF EnteringInv, EntersOnce
    <3> QED  BY <3>1, <3>2, EntersBefore
  <2>3. ASSUME NEW q \in AccountCall, AddsInfo(q, u) PROVE Twice(Calls[r].subject)'
    <3>1. Calls[r].subject = Calls[q].subject /\ q # r BY <1>1, <2>3 DEF AddsInfo
    <3>2. Entering(r) BY <2>3, <3>1 DEF AddsInfo, OthersKeep, Entering
    <3> QED  BY <1>0, <1>1, <2>3, <3>1, <3>2 DEF EnteringInv, OneEnters
  <2>4. ASSUME NEW q \in AccountCall, Deletes(q, u) PROVE FALSE BY <2>4 DEF Deletes, AC!NoInfo
  <2> QED  BY <2>1, <2>2, <2>3, <2>4, SubjectsKept
<1>6. OneAccount'
  <2>1. ASSUME NEW sub \in Subject, NEW u \in User, NEW w \in User \ {u}, Settled(u)', Settled(w)',
               sub \in oidc'[u].subjects, sub \in oidc'[w].subjects, NEW q \in AccountCall, AddsInfo(q, u)
        PROVE  Twice(sub)'
    <3>1. sub = Calls[q].subject /\ oidc'[w] = oidc[w] BY <2>1 DEF AddsInfo, OthersOf, UserKeeps
    <3>2. Settled(w) BY <2>1, OverlapsGrow DEF Settled
    <3> QED  BY <1>0, <1>1, <2>1, <3>1, <3>2 DEF EnteringInv, EntersOnce
  <2>2. ASSUME NEW u \in User, NEW q \in AccountCall, Deletes(q, u) PROVE oidc'[u].subjects = {}
        BY <2>2 DEF Deletes, AC!NoInfo
  <2> SUFFICES ASSUME NEW sub \in Subject, NEW u \in User, NEW w \in User \ {u}, Settled(u)', Settled(w)',
                      sub \in oidc'[u].subjects, sub \in oidc'[w].subjects
               PROVE  Twice(sub)'
      BY DEF OneAccount
  <2>3. Settled(u) /\ Settled(w) BY OverlapsGrow DEF Settled
  <2>4. CASE \E q \in AccountCall : AddsInfo(q, u) BY <2>1, <2>4
  <2>5. CASE \E q \in AccountCall : AddsInfo(q, w) BY <2>1, <2>5
  <2>6. CASE oidc'[u].subjects = oidc[u].subjects /\ oidc'[w].subjects = oidc[w].subjects
    BY <1>0, <2>3, <2>6 DEF EnteringInv, OneAccount
  <2> QED  BY <2>2, <2>3, <2>4, <2>5, <2>6, SubjectsKept
<1> QED  BY <1>4, <1>5, <1>6, InfoStep DEF EnteringInv

\* The effects that neither use nor set a refresh token.
LEMMA RefreshMove ==
  ASSUME RefreshInv, overlaps \subseteq overlaps', grants \subseteq grants',
         \A u \in User : oidc'[u].token \in {oidc[u].token, 0},
         \A u \in User : oidc'[u].token # 0 => user'[u].there /\ user'[u].id = user[u].id,
         \A r \in AccountCall : step'[r] \in {"exchange", "refresh"} => step'[r] = step[r] /\ held'[r] = held[r],
         \A r \in AccountCall : step[r] = "refresh" =>
           \/ step'[r] = "refresh"
           \/ \A u \in User : Renews(r, u) => <<u, "lost">> \in overlaps'
  PROVE  RefreshInv'
<1>1. ASSUME NEW u \in User PROVE TokenIsGood(u)'
  <2> SUFFICES ASSUME oidc'[u].token # 0
               PROVE  \/ oidc'[u].token \in grants'
                      \/ <<u, "lost">> \in overlaps'
                      \/ <<u, "revoked">> \in overlaps'
                      \/ \E r \in AccountCall : Renews(r, u)'
      BY DEF TokenIsGood
  <2>1. oidc'[u].token = oidc[u].token /\ TokenIsGood(u) BY DEF RefreshInv
  <2>2. ASSUME NEW r \in AccountCall, Renews(r, u), step'[r] = "refresh" PROVE Renews(r, u)'
    <3>1. held'[r] = held[r] BY <2>2
    <3> QED  BY <2>2, <3>1 DEF Renews
  <2>3. ASSUME NEW r \in AccountCall, Renews(r, u) PROVE Renews(r, u)' \/ <<u, "lost">> \in overlaps'
    BY <2>2, <2>3 DEF Renews
  <2> QED  BY <2>1, <2>3 DEF TokenIsGood
<1>2. ASSUME NEW u \in User PROVE Differs(u)'
  <2>1. Differs(u) BY DEF RefreshInv
  <2> QED  BY <2>1 DEF Differs
<1>3. ASSUME NEW r \in AccountCall PROVE ExchangesIts(r)'
  <2> SUFFICES ASSUME step'[r] = "exchange" PROVE ExchangesIts(r)' BY DEF ExchangesIts
  <2>1. step[r] = "exchange" /\ held'[r] = held[r] /\ ExchangesIts(r) BY DEF RefreshInv
  <2> QED  BY <2>1 DEF ExchangesIts
<1>4. ASSUME NEW r \in AccountCall PROVE HasTheNext(r)'
  <2> SUFFICES ASSUME step'[r] = "refresh" PROVE HasTheNext(r)' BY DEF HasTheNext
  <2>1. step[r] = "refresh" /\ held'[r] = held[r] /\ HasTheNext(r) BY DEF RefreshInv
  <2>2. \A u \in User : oidc'[u].token # held[r].oidc.token BY <2>1 DEF HasTheNext
  <2>3. ASSUME NEW ro \in AccountCall \ {r}, step'[ro] \in {"exchange", "refresh"}
        PROVE  held'[ro].oidc.token # held[r].oidc.token
    <3>1. step'[ro] = step[ro] /\ held'[ro] = held[ro] BY <2>3
    <3> QED  BY <2>1, <2>3, <3>1 DEF HasTheNext
  <2> QED  BY <2>1, <2>2, <2>3 DEF HasTheNext
<1> QED  BY <1>1, <1>2, <1>3, <1>4 DEF RefreshInv

\* A new token is none of those that are known.
LEMMA FreshToken ==
  ASSUME AccountsTyped, NumbersInv
  PROVE  /\ drawn + 1 # 0 /\ drawn + 1 \notin grants
         /\ \A u \in User : oidc[u].token # drawn + 1
         /\ \A r \in AccountCall : step[r] \in Holding => held[r].oidc.token # drawn + 1
<1>1. drawn \in Nat /\ grants \subseteq 0..drawn BY DEF AccountsTyped
<1>2. \A u \in User : oidc[u].token \in 0..drawn BY DEF NumbersInv, RowNumbers
<1>3. \A r \in AccountCall : step[r] \in Holding => held[r].oidc.token \in 0..drawn BY DEF NumbersInv, HeldNumbers
<1> QED  BY ONLY <1>1, <1>2, <1>3

\* A row with a refresh token is one of a user who is there.
LEMMA TokenHasUser ==
  ASSUME NumbersInv, NEW u \in User, oidc[u].token # 0
  PROVE  user[u].there
BY DEF NumbersInv, RowNumbers

LEMMA RefreshQuiet ==
  ASSUME NumbersInv, RefreshInv, NEW r \in AccountCall, NEW u \in User,
         \/ MakesUser(r, u) \/ PutsChannel(r, u) \/ InsertsChannel(r, u) \/ SavesAsRead(r, u) \/ SetsPassword(r, u)
         \/ Deletes(r, u) \/ AddsInfo(r, u),
         NumbersInv'
  PROVE  RefreshInv'
<1>1. /\ OthersKeep(r) /\ OthersOf(u) /\ overlaps \subseteq overlaps' /\ grants' = grants
      /\ step'[r] \notin {"exchange", "refresh"} /\ step[r] # "refresh"
      BY DEF MakesUser, PutsChannel, InsertsChannel, SavesAsRead, SetsPassword, Deletes, AddsInfo, Marks
<1>2. oidc'[u].token \in {oidc[u].token, 0}
      BY DEF MakesUser, PutsChannel, InsertsChannel, SavesAsRead, SetsPassword, Deletes, AddsInfo, AC!NoInfo
<1>3. ASSUME oidc'[u].token # 0 PROVE user'[u].there /\ user'[u].id = user[u].id
  <2>1. oidc[u].token # 0 /\ user[u].there BY <1>2, <1>3, TokenHasUser
  <2>2. user'[u].there BY <1>3 DEF NumbersInv, RowNumbers
  <2>3. CASE SavesAsRead(r, u) \/ SetsPassword(r, u)
    BY <2>1, <2>2, <2>3 DEF SavesAsRead, SetsPassword, AC!CanSaveUser
  <2>4. CASE MakesUser(r, u) BY <2>1, <2>4 DEF MakesUser
  <2>5. CASE Deletes(r, u) BY <1>3, <2>5 DEF Deletes, AC!NoInfo
  <2>6. CASE PutsChannel(r, u) \/ InsertsChannel(r, u) \/ AddsInfo(r, u)
    BY <2>2, <2>6 DEF PutsChannel, InsertsChannel, AddsInfo
  <2> QED  BY <2>3, <2>4, <2>5, <2>6
<1>4. \A w \in User : oidc'[w].token \in {oidc[w].token, 0} BY <1>1, <1>2 DEF OthersOf, UserKeeps
<1>5. ASSUME NEW w \in User, oidc'[w].token # 0 PROVE user'[w].there /\ user'[w].id = user[w].id
  <2>1. CASE w = u BY <1>3, <1>5, <2>1
  <2>2. CASE w # u
    <3>1. user'[w] = user[w] /\ oidc'[w] = oidc[w] BY <1>1, <2>2 DEF OthersOf, UserKeeps
    <3> QED  BY <1>5, <3>1, TokenHasUser
  <2> QED  BY <2>1, <2>2
<1>6. \A ro \in AccountCall : step'[ro] \in {"exchange", "refresh"} => step'[ro] = step[ro] /\ held'[ro] = held[ro]
      BY <1>1 DEF OthersKeep
<1>7. \A ro \in AccountCall : step[ro] = "refresh" => step'[ro] = "refresh" BY <1>1 DEF OthersKeep
<1> QED  BY <1>1, <1>4, <1>5, <1>6, <1>7, RefreshMove

LEMMA RefreshStill ==
  ASSUME NumbersInv, RefreshInv,
         \/ Stays \/ \E u \in User : Expires(u)
         \/ \E r \in AccountCall : Ends(r) \/ ReadsChannel(r) \/ Enters(r)
  PROVE  RefreshInv'
<1>1. ASSUME user' = user, \A u \in User : oidc'[u].token = oidc[u].token,
             overlaps \subseteq overlaps', grants \subseteq grants',
             \A r \in AccountCall : step'[r] \in {"exchange", "refresh"} => step'[r] = step[r] /\ held'[r] = held[r],
             \A r \in AccountCall : step[r] = "refresh" =>
               \/ step'[r] = "refresh"
               \/ \A u \in User : Renews(r, u) => <<u, "lost">> \in overlaps'
      PROVE  RefreshInv'
  <2>1. \A u \in User : oidc'[u].token # 0 => user'[u].there /\ user'[u].id = user[u].id BY <1>1, TokenHasUser
  <2>2. \A u \in User : oidc'[u].token \in {oidc[u].token, 0} BY <1>1
  <2> QED  BY <1>1, <2>1, <2>2, RefreshMove
<1>2. CASE Stays BY <1>1, <1>2 DEF Stays
<1>3. ASSUME NEW u \in User, Expires(u) PROVE RefreshInv'
  <2>1. \A w \in User : oidc'[w].token = oidc[w].token BY <1>3 DEF Expires, OthersOf, UserKeeps
  <2>2. UNCHANGED <<user, overlaps, grants, step, held>> BY <1>3 DEF Expires
  <2> QED  BY <1>1, <2>1, <2>2
<1>4. ASSUME NEW r \in AccountCall, Ends(r) \/ ReadsChannel(r) \/ Enters(r) PROVE RefreshInv'
  <2>1. /\ OthersKeep(r) /\ user' = user /\ oidc' = oidc /\ overlaps \subseteq overlaps' /\ grants \subseteq grants'
        /\ step'[r] \notin {"exchange", "refresh"}
        BY <1>4 DEF Ends, ReadsChannel, Enters, AccountRowsKept, Holding
  <2>2. ASSUME step[r] = "refresh", NEW u \in User, Renews(r, u) PROVE <<u, "lost">> \in overlaps'
    BY <1>4, <2>2 DEF Ends, ReadsChannel, Enters, Renews, AC!CanRefer
  <2>3. \A ro \in AccountCall : step'[ro] \in {"exchange", "refresh"} => step'[ro] = step[ro] /\ held'[ro] = held[ro]
        BY <2>1 DEF OthersKeep
  <2>4. \A ro \in AccountCall : step[ro] = "refresh" =>
          \/ step'[ro] = "refresh"
          \/ \A u \in User : Renews(ro, u) => <<u, "lost">> \in overlaps'
        BY <2>1, <2>2 DEF OthersKeep
  <2> QED  BY <1>1, <2>1, <2>3, <2>4
<1> QED  BY <1>2, <1>3, <1>4

LEMMA RefreshReads ==
  ASSUME NumbersInv, RefreshInv, NEW r \in AccountCall, NEW u \in User, ReadsRows(r, u)
  PROVE  RefreshInv'
<1>1. /\ OthersKeep(r) /\ UNCHANGED <<user, oidc, grants, overlaps>> /\ step[r] # "refresh" /\ step'[r] # "refresh"
      BY DEF ReadsRows, AccountRowsKept
<1>2. \A ro \in AccountCall : step'[ro] = "refresh" \/ step[ro] = "refresh" => step'[ro] = step[ro] /\ held'[ro] = held[ro]
      BY <1>1 DEF OthersKeep
<1>3. ASSUME NEW w \in User PROVE TokenIsGood(w)' /\ Differs(w)'
  <2>1. TokenIsGood(w) /\ Differs(w) BY DEF RefreshInv
  <2>2. \A ro \in AccountCall : Renews(ro, w) => Renews(ro, w)' BY <1>1, <1>2 DEF Renews
  <2> QED  BY <1>1, <2>1, <2>2 DEF TokenIsGood, Differs
<1>4. ASSUME NEW ro \in AccountCall PROVE ExchangesIts(ro)'
  <2>1. CASE ro # r
    <3>1. step'[ro] = step[ro] /\ held'[ro] = held[ro] /\ ExchangesIts(ro) BY <1>1, <2>1 DEF OthersKeep, RefreshInv
    <3> QED  BY <1>1, <3>1 DEF ExchangesIts
  <2>2. CASE ro = r
    <3>1. Differs(u) BY DEF RefreshInv
    <3>2. held'[r].name = u /\ held'[r].user = user[u] /\ held'[r].oidc = oidc[u]
          /\ (step'[r] = "exchange" => oidc[u].token # 0)
          BY DEF ReadsRows
    <3> QED  BY <1>1, <2>2, <3>1, <3>2 DEF ExchangesIts, Differs
  <2> QED  BY <2>1, <2>2
<1>5. ASSUME NEW ro \in AccountCall PROVE HasTheNext(ro)'
  <2> SUFFICES ASSUME step'[ro] = "refresh" PROVE HasTheNext(ro)' BY DEF HasTheNext
  <2>1. step[ro] = "refresh" /\ held'[ro] = held[ro] /\ HasTheNext(ro) /\ ro # r BY <1>1, <1>2 DEF RefreshInv
  <2>2. ASSUME NEW q \in AccountCall \ {ro}, step'[q] \in {"exchange", "refresh"}
        PROVE  held'[q].oidc.token # held[ro].oidc.token
    <3>1. CASE q = r
      <4>1. held'[r].oidc = oidc[u] BY DEF ReadsRows
      <4> QED  BY <2>1, <3>1, <4>1 DEF HasTheNext
    <3>2. CASE q # r
      <4>1. step'[q] = step[q] /\ held'[q] = held[q] BY <1>1, <3>2 DEF OthersKeep
      <4> QED  BY <2>1, <2>2, <4>1 DEF HasTheNext
    <3> QED  BY <3>1, <3>2
  <2> QED  BY <1>1, <2>1, <2>2 DEF HasTheNext
<1> QED  BY <1>3, <1>4, <1>5 DEF RefreshInv

LEMMA RefreshLogin ==
  ASSUME AccountsTyped, NumbersInv, RefreshInv, NEW r \in AccountCall, NEW u \in User, LogsIn(r, u)
  PROVE  RefreshInv'
<1> DEFINE n == drawn + 1
<1>1. /\ OthersKeep(r) /\ OthersOf(u) /\ UNCHANGED <<user, overlaps, held>> /\ grants' = grants \union {n}
      /\ step[r] = "login" /\ step'[r] = "done" /\ oidc'[u].token = n
      BY DEF LogsIn
<1>2. /\ n # 0 /\ \A w \in User : oidc[w].token # n
      /\ \A ro \in AccountCall : step[ro] \in Holding => held[ro].oidc.token # n
      BY FreshToken
<1> HIDE DEF n
<1>3. \A w \in User \ {u} : oidc'[w] = oidc[w] BY <1>1 DEF OthersOf, UserKeeps
<1>4. \A ro \in AccountCall : step'[ro] \in {"exchange", "refresh"} \/ step[ro] \in {"exchange", "refresh"} =>
        step'[ro] = step[ro] /\ held[ro].oidc.token # n
      BY <1>1, <1>2 DEF OthersKeep, Holding
<1>5. ASSUME NEW w \in User PROVE TokenIsGood(w)'
  <2>1. CASE w = u BY <1>1, <2>1 DEF TokenIsGood
  <2>2. CASE w # u
    <3>1. TokenIsGood(w) /\ oidc'[w] = oidc[w] BY <1>3, <2>2 DEF RefreshInv
    <3>2. \A ro \in AccountCall : Renews(ro, w) => Renews(ro, w)' BY <1>1, <1>4 DEF Renews
    <3> QED  BY <1>1, <3>1, <3>2 DEF TokenIsGood
  <2> QED  BY <2>1, <2>2
<1>6. ASSUME NEW w \in User PROVE Differs(w)'
  <2>1. Differs(w) BY DEF RefreshInv
  <2>2. CASE w = u BY <1>1, <1>2, <1>3, <2>2 DEF Differs
  <2>3. CASE w # u
    <3>1. oidc'[w] = oidc[w] /\ oidc[w].token # n BY <1>2, <1>3, <2>3
    <3> QED  BY <1>1, <1>3, <2>1, <3>1 DEF Differs
  <2> QED  BY <2>2, <2>3
<1>7. ASSUME NEW ro \in AccountCall PROVE ExchangesIts(ro)'
  <2> SUFFICES ASSUME step'[ro] = "exchange" PROVE ExchangesIts(ro)' BY DEF ExchangesIts
  <2>1. step[ro] = "exchange" /\ held[ro].oidc.token # n /\ ExchangesIts(ro) BY <1>4 DEF RefreshInv
  <2>2. ASSUME NEW w \in User, oidc'[w].token = held[ro].oidc.token PROVE oidc[w].token = held[ro].oidc.token
        BY <1>1, <1>3, <2>1, <2>2
  <2> QED  BY <1>1, <2>1, <2>2 DEF ExchangesIts
<1>8. ASSUME NEW ro \in AccountCall PROVE HasTheNext(ro)'
  <2> SUFFICES ASSUME step'[ro] = "refresh" PROVE HasTheNext(ro)' BY DEF HasTheNext
  <2>1. step[ro] = "refresh" /\ held[ro].oidc.token # n /\ HasTheNext(ro) BY <1>4 DEF RefreshInv
  <2>2. \A w \in User : oidc'[w].token # held[ro].oidc.token BY <1>1, <1>3, <2>1 DEF HasTheNext
  <2>3. \A q \in AccountCall \ {ro} : step'[q] \in {"exchange", "refresh"} => held[q].oidc.token # held[ro].oidc.token
        BY <1>4, <2>1 DEF HasTheNext
  <2> QED  BY <1>1, <2>1, <2>2, <2>3 DEF HasTheNext
<1> QED  BY <1>5, <1>6, <1>7, <1>8 DEF RefreshInv

LEMMA RefreshUses ==
  ASSUME AccountsTyped, NumbersInv, RefreshInv, NEW r \in AccountCall, UsesToken(r)
  PROVE  RefreshInv'
<1> DEFINE n == drawn + 1
           old == held[r].oidc.token
<1>1. /\ OthersKeep(r) /\ UNCHANGED <<user, oidc, overlaps>> /\ grants' = (grants \ {old}) \union {n}
      /\ step[r] = "exchange" /\ step'[r] = "refresh"
      /\ held'[r].name = held[r].name /\ held'[r].user = held[r].user /\ held'[r].oidc.token = n
      BY DEF UsesToken, AccountRowsKept
<1>2. /\ n # 0 /\ n \notin grants /\ \A w \in User : oidc[w].token # n
      /\ \A ro \in AccountCall : step[ro] \in Holding => held[ro].oidc.token # n
      BY FreshToken
<1> HIDE DEF n
<1>3. \A ro \in AccountCall \ {r} : step'[ro] = step[ro] /\ held'[ro] = held[ro] BY <1>1 DEF OthersKeep
<1>4. old # 0 /\ \A w \in User : oidc[w].token = old => held[r].name = w /\ user[w].id = held[r].user.id
      BY <1>1 DEF RefreshInv, ExchangesIts
<1>5. ASSUME NEW w \in User PROVE TokenIsGood(w)' /\ Differs(w)'
  <2>1. TokenIsGood(w) /\ Differs(w) BY DEF RefreshInv
  <2>2. Differs(w)' BY <1>1, <2>1 DEF Differs
  <2>3. \A ro \in AccountCall : Renews(ro, w) => Renews(ro, w)'
    <3>1. ASSUME NEW ro \in AccountCall, Renews(ro, w) PROVE Renews(ro, w)'
      <4>1. ro # r BY <1>1, <3>1 DEF Renews
      <4> QED  BY <1>1, <1>3, <3>1, <4>1 DEF Renews
    <3> QED  BY <3>1
  <2>4. ASSUME oidc[w].token = old PROVE Renews(r, w)'
    <3>1. user[w].there BY <1>4, <2>4, TokenHasUser
    <3> QED  BY <1>1, <1>4, <2>4, <3>1 DEF Renews
  <2> QED  BY <1>1, <2>1, <2>2, <2>3, <2>4 DEF TokenIsGood
<1>6. ASSUME NEW ro \in AccountCall PROVE ExchangesIts(ro)'
  <2>1. CASE ro # r
    <3>1. step'[ro] = step[ro] /\ held'[ro] = held[ro] /\ ExchangesIts(ro) BY <1>3, <2>1 DEF RefreshInv
    <3> QED  BY <1>1, <3>1 DEF ExchangesIts
  <2>2. CASE ro = r BY <1>1, <2>2 DEF ExchangesIts
  <2> QED  BY <2>1, <2>2
<1>7. HasTheNext(r)'
  <2>1. ASSUME NEW q \in AccountCall \ {r}, step'[q] \in {"exchange", "refresh"} PROVE held'[q].oidc.token # n
    <3>1. step[q] \in Holding /\ held'[q] = held[q] BY <1>3, <2>1 DEF Holding
    <3> QED  BY <1>2, <3>1
  <2> QED  BY <1>1, <1>2, <2>1 DEF HasTheNext
<1>8. ASSUME NEW ro \in AccountCall \ {r} PROVE HasTheNext(ro)'
  <2> SUFFICES ASSUME step'[ro] = "refresh" PROVE HasTheNext(ro)' BY DEF HasTheNext
  <2>1. step[ro] = "refresh" /\ held'[ro] = held[ro] /\ HasTheNext(ro) BY <1>3 DEF RefreshInv
  <2>2. held[ro].oidc.token # old /\ held[ro].oidc.token # n BY <1>1, <1>2, <2>1 DEF HasTheNext, Holding
  <2>3. ASSUME NEW q \in AccountCall \ {ro}, step'[q] \in {"exchange", "refresh"}
        PROVE  held'[q].oidc.token # held[ro].oidc.token
    <3>1. CASE q = r BY <1>1, <2>2, <3>1
    <3>2. CASE q # r
      <4>1. step'[q] = step[q] /\ held'[q] = held[q] BY <1>3, <3>2
      <4> QED  BY <2>1, <2>3, <4>1 DEF HasTheNext
    <3> QED  BY <3>1, <3>2
  <2> QED  BY <1>1, <2>1, <2>2, <2>3 DEF HasTheNext
<1> QED  BY <1>5, <1>6, <1>7, <1>8 DEF RefreshInv

LEMMA RefreshRenewed ==
  ASSUME NumbersInv, RefreshInv, NEW r \in AccountCall, NEW u \in User, Renewed(r, u)
  PROVE  RefreshInv'
<1> DEFINE n == held[r].oidc.token
<1>1. /\ OthersKeep(r) /\ OthersOf(u) /\ UNCHANGED <<user, overlaps, held, grants>>
      /\ step[r] = "refresh" /\ step'[r] = "done" /\ oidc'[u].token = n /\ held[r].name = u
      BY DEF Renewed
<1>2. /\ n # 0 /\ n \in grants /\ \A w \in User : oidc[w].token # n
      /\ \A ro \in AccountCall \ {r} : step[ro] \in {"exchange", "refresh"} => held[ro].oidc.token # n
      BY <1>1 DEF RefreshInv, HasTheNext
<1> HIDE DEF n
<1>3. \A w \in User \ {u} : oidc'[w] = oidc[w] BY <1>1 DEF OthersOf, UserKeeps
<1>4. \A ro \in AccountCall : step'[ro] \in {"exchange", "refresh"} => step'[ro] = step[ro] /\ held[ro].oidc.token # n
      BY <1>1, <1>2 DEF OthersKeep
<1>5. ASSUME NEW w \in User PROVE TokenIsGood(w)'
  <2>1. CASE w = u BY <1>1, <1>2, <2>1 DEF TokenIsGood
  <2>2. CASE w # u
    <3>1. TokenIsGood(w) /\ oidc'[w] = oidc[w] BY <1>3, <2>2 DEF RefreshInv
    <3>2. ASSUME NEW ro \in AccountCall, Renews(ro, w) PROVE Renews(ro, w)'
      <4>1. ro # r BY <1>1, <2>2, <3>2 DEF Renews
      <4> QED  BY <1>1, <3>2, <4>1 DEF Renews, OthersKeep
    <3> QED  BY <1>1, <3>1, <3>2 DEF TokenIsGood
  <2> QED  BY <2>1, <2>2
<1>6. ASSUME NEW w \in User PROVE Differs(w)'
  <2>1. Differs(w) BY DEF RefreshInv
  <2>2. CASE w = u BY <1>1, <1>2, <1>3, <2>2 DEF Differs
  <2>3. CASE w # u
    <3>1. oidc'[w] = oidc[w] /\ oidc[w].token # n BY <1>2, <1>3, <2>3
    <3> QED  BY <1>1, <1>3, <2>1, <3>1 DEF Differs
  <2> QED  BY <2>2, <2>3
<1>7. ASSUME NEW ro \in AccountCall PROVE ExchangesIts(ro)'
  <2> SUFFICES ASSUME step'[ro] = "exchange" PROVE ExchangesIts(ro)' BY DEF ExchangesIts
  <2>1. step[ro] = "exchange" /\ held[ro].oidc.token # n /\ ExchangesIts(ro) BY <1>4 DEF RefreshInv
  <2>2. ASSUME NEW w \in User, oidc'[w].token = held[ro].oidc.token PROVE oidc[w].token = held[ro].oidc.token
        BY <1>1, <1>3, <2>1, <2>2
  <2> QED  BY <1>1, <2>1, <2>2 DEF ExchangesIts
<1>8. ASSUME NEW ro \in AccountCall PROVE HasTheNext(ro)'
  <2> SUFFICES ASSUME step'[ro] = "refresh" PROVE HasTheNext(ro)' BY DEF HasTheNext
  <2>1. step[ro] = "refresh" /\ held[ro].oidc.token # n /\ HasTheNext(ro) BY <1>4 DEF RefreshInv
  <2>2. \A w \in User : oidc'[w].token # held[ro].oidc.token BY <1>1, <1>3, <2>1 DEF HasTheNext
  <2>3. \A q \in AccountCall \ {ro} : step'[q] \in {"exchange", "refresh"} => held[q].oidc.token # held[ro].oidc.token
        BY <1>4, <2>1 DEF HasTheNext
  <2> QED  BY <1>1, <2>1, <2>2, <2>3 DEF HasTheNext
<1> QED  BY <1>5, <1>6, <1>7, <1>8 DEF RefreshInv

LEMMA RefreshRevoked ==
  ASSUME RefreshInv, NEW u \in User, Revokes(u)
  PROVE  RefreshInv'
<1>1. /\ UNCHANGED <<user, oidc, held, step>> /\ grants' = grants \ {oidc[u].token}
      /\ overlaps' = overlaps \union {<<u, "revoked">>}
      BY DEF Revokes, AccountRowsKept
<1>2. ASSUME NEW w \in User PROVE TokenIsGood(w)' /\ Differs(w)'
  <2>1. TokenIsGood(w) /\ Differs(w) BY DEF RefreshInv
  <2>2. Differs(w)' BY <1>1, <2>1 DEF Differs
  <2>3. TokenIsGood(w)'
    <3>1. CASE w = u BY <1>1, <3>1 DEF TokenIsGood
    <3>2. CASE w # u
      <4>1. oidc[w].token # 0 => oidc[w].token # oidc[u].token BY <2>1, <3>2 DEF Differs
      <4>2. \A r \in AccountCall : Renews(r, w) => Renews(r, w)' BY <1>1 DEF Renews
      <4> QED  BY <1>1, <2>1, <4>1, <4>2 DEF TokenIsGood
    <3> QED  BY <3>1, <3>2
  <2> QED  BY <2>2, <2>3
<1>3. ASSUME NEW r \in AccountCall PROVE ExchangesIts(r)' /\ HasTheNext(r)'
  <2>1. ExchangesIts(r) /\ HasTheNext(r) BY DEF RefreshInv
  <2>2. ExchangesIts(r)' BY <1>1, <2>1 DEF ExchangesIts
  <2>3. HasTheNext(r)' BY <1>1, <2>1 DEF HasTheNext
  <2> QED  BY <2>2, <2>3
<1> QED  BY <1>2, <1>3 DEF RefreshInv

LEMMA RefreshStep ==
  ASSUME AccountsTyped, NumbersInv, NumbersInv', RefreshInv, Effect
  PROVE  RefreshInv'
<1>1. ASSUME NEW r \in AccountCall, NEW u \in User,
             \/ ReadsRows(r, u) \/ MakesUser(r, u) \/ PutsChannel(r, u) \/ InsertsChannel(r, u)
             \/ SavesAsRead(r, u) \/ SetsPassword(r, u) \/ Deletes(r, u)
             \/ AddsInfo(r, u) \/ LogsIn(r, u) \/ Renewed(r, u)
      PROVE  RefreshInv'
      BY <1>1, RefreshReads, RefreshQuiet, RefreshLogin, RefreshRenewed
<1> QED  BY <1>1, RefreshStill, RefreshUses, RefreshRevoked DEF Effect

LEMMA AccountsStep == AccountsInv /\ [AC!Next]_(AC!vars) => AccountsInv'
<1> SUFFICES ASSUME AccountsInv, [AC!Next]_(AC!vars) PROVE AccountsInv' OBVIOUS
<1>1. AccountsTyped /\ KindsInv /\ NumbersInv /\ HeldInv /\ AnswersInv /\ EnteringInv /\ RefreshInv BY DEF AccountsInv
<1>2. AccountsTyped' /\ KindsInv' /\ Effect BY <1>1, AccountsEffect
<1>3. NumbersInv' BY <1>1, <1>2, NumbersStep
<1>4. HeldInv' BY <1>1, <1>2, HeldStep
<1>5. AnswersInv' BY <1>1, <1>2, <1>3, AnswersStep
<1>6. EnteringInv' BY <1>1, <1>2, EnteringStep
<1>7. RefreshInv' BY <1>1, <1>2, <1>3, RefreshStep
<1> QED  BY <1>2, <1>3, <1>4, <1>5, <1>6, <1>7 DEF AccountsInv

LEMMA AccountsBegin == AC!Init => AccountsInv
<1> SUFFICES ASSUME AC!Init PROVE AccountsInv OBVIOUS
<1> USE DEF Holding, Loose
<1>1. /\ user = [u \in User |-> IF u \in Members THEN [there |-> TRUE, id |-> 1, password |-> 1] ELSE AC!NoUser]
      /\ channel = [u \in User |-> [AC!NoChannel EXCEPT !.there = u \in Members]]
      /\ oidc = [u \in User |-> AC!NoInfo] /\ grants = {} /\ drawn = 1 /\ accounts \in AC!Setting
      /\ step = [r \in AccountCall |-> "new"] /\ held = [r \in AccountCall |-> AC!Nothing(Calls[r].user)] /\ left = {}
      /\ wanted = [u \in User |-> [password |-> 1, role |-> "USER", name |-> HomeChannel, gone |-> {}]]
      /\ overlaps = {}
      BY AccountsAssumption DEF AC!Init
<1>2. ASSUME NEW u \in User
      PROVE  /\ user[u] \in UserRow /\ (user[u].there <=> u \in Members)
             /\ user[u].id = (IF u \in Members THEN 1 ELSE 0) /\ (u \in Members => user[u].password = 1)
      BY <1>1 DEF UserRow, AC!NoUser
<1>3. ASSUME NEW u \in User
      PROVE  /\ channel[u] \in ChannelRow /\ (channel[u].there <=> u \in Members)
             /\ channel[u].role = "USER" /\ channel[u].name = HomeChannel
  <2>1. PICK b \in BOOLEAN : b <=> u \in Members OBVIOUS
  <2>2. channel[u] = [AC!NoChannel EXCEPT !.there = b] BY <1>1, <2>1
  <2>3. channel[u].there = b /\ channel[u].role = "USER" /\ channel[u].name = HomeChannel /\ channel[u] \in ChannelRow
        BY <2>2, AccountsAssumption DEF AC!NoChannel, ChannelRow, AC!Role
  <2> QED  BY <2>1, <2>3
<1>4. AC!NoInfo \in InfoRow /\ ~AC!NoInfo.there /\ AC!NoInfo.subjects = {} /\ AC!NoInfo.token = 0
      BY DEF AC!NoInfo, InfoRow
<1>5. ASSUME NEW r \in AccountCall PROVE held[r] \in HeldRows
  <2>1. Calls[r].user \in User BY AccountsAssumption DEF AC!RequestType
  <2>2. AC!NoUser \in UserRow /\ AC!NoChannel \in ChannelRow
        BY AccountsAssumption DEF AC!NoUser, UserRow, AC!NoChannel, ChannelRow, AC!Role
  <2> QED  BY <1>1, <1>4, <2>1, <2>2 DEF AC!Nothing, HeldRows
<1>6. AccountsTyped
  <2>1. user \in [User -> UserRow] BY <1>1, <1>2
  <2>2. channel \in [User -> ChannelRow] BY <1>1, <1>3
  <2>3. oidc \in [User -> InfoRow] BY <1>1, <1>4
  <2>4. held \in [AccountCall -> HeldRows] BY <1>1, <1>5
  <2>5. [password |-> 1, role |-> "USER", name |-> HomeChannel, gone |-> {}] \in Wanted
        BY AccountsAssumption DEF Wanted, AC!Role
  <2>6. wanted \in [User -> Wanted] BY <1>1, <2>5
  <2> QED  BY <1>1, <2>1, <2>2, <2>3, <2>4, <2>6 DEF AccountsTyped
<1>7. KindsInv BY <1>1 DEF KindsInv, KindOf, Logged
<1>8. NumbersInv
  <2>1. ASSUME NEW u \in User PROVE RowNumbers(u) BY <1>1, <1>2, <1>3, <1>4 DEF RowNumbers
  <2>2. ASSUME NEW r \in AccountCall PROVE HeldNumbers(r) BY <1>1 DEF HeldNumbers
  <2> QED  BY <2>1, <2>2 DEF NumbersInv
<1>9. \A r \in AccountCall : \A u \in User : ~HoldsRow(r, u) BY <1>1 DEF HoldsRow
<1>10. \A r \in AccountCall : ~Entering(r) BY <1>1 DEF Entering
<1>11. \A u \in User : wanted[u].password = 1 /\ wanted[u].role = "USER" /\ wanted[u].name = HomeChannel /\ wanted[u].gone = {}
       BY <1>1
<1>12. AnswersInv
  <2>1. ASSUME NEW u \in User PROVE PasswordInv(u) BY <1>2, <1>9, <1>11 DEF PasswordInv
  <2>2. ASSUME NEW u \in User PROVE ChannelInv(u) BY <1>3, <1>9, <1>11 DEF ChannelInv
  <2>3. AC!DeletedStayOut BY <1>11 DEF AC!DeletedStayOut
  <2> QED  BY <2>1, <2>2, <2>3 DEF AnswersInv
<1>13. EnteringInv BY <1>1, <1>4, <1>9, <1>10 DEF EnteringInv, InfoIsHeld, OneEnters, EntersOnce, OneAccount
<1>14. RefreshInv BY <1>1, <1>4 DEF RefreshInv, TokenIsGood, Differs, ExchangesIts, HasTheNext
<1>15. HeldInv BY <1>9 DEF HeldInv
<1> QED  BY <1>6, <1>7, <1>8, <1>12, <1>13, <1>14, <1>15 DEF AccountsInv

LEMMA AccountsInvariant == AC!Spec => []AccountsInv
BY AccountsBegin, AccountsStep, PTL DEF AC!Spec

\* The last change of an account stays in force, whatever views, logins and jobs
\* overlap, and a deleted account stays deleted (views/user.py, sync_users.py).
THEOREM AccountsAreKept == AC!Spec => []AccountsHold
<1>1. AccountsInv => AccountsHold
  <2> SUFFICES ASSUME AccountsInv PROVE AccountsHold OBVIOUS
  <2>1. AnswersInv BY DEF AccountsInv
  <2>2. AC!AnswersHold BY <2>1 DEF AnswersInv, PasswordInv, ChannelInv, AC!AnswersHold, AC!Settled, Settled
  <2> QED  BY <2>1, <2>2 DEF AnswersInv, AccountsHold
<1> QED  BY <1>1, AccountsInvariant, PTL

\* A set that has no two members has at most one.
LEMMA TwoMembers ==
  ASSUME NEW set, IsFiniteSet(set), Cardinality(set) > 1
  PROVE  \E u \in set : \E w \in set \ {u} : TRUE
<1> SUFFICES ASSUME \A u \in set : \A w \in set : w = u PROVE FALSE OBVIOUS
<1>1. set # {} BY FS_EmptySet
<1>2. PICK u \in set : TRUE BY <1>1
<1>3. set = {u} BY <1>2
<1> QED  BY <1>3, FS_Singleton

LEMMA AccountsCardinality == \A set : AC!Cardinality(set) = Cardinality(set)
BY DEF AC!Cardinality, Cardinality

\* An external user gets one account at first login, and its refresh token is one
\* the provider takes (users/authentication.py).
THEOREM ExternalUsersAreKept == AC!Spec => []ExternalUsersKept
<1>1. AccountsInv => ExternalUsersKept
  <2> SUFFICES ASSUME AccountsInv PROVE ExternalUsersKept OBVIOUS
  <2>1. KindsInv /\ EnteringInv /\ RefreshInv BY DEF AccountsInv
  <2>2. ASSUME NEW sub \in Subject,
               AC!Cardinality({u \in User : AC!Settled(u) /\ sub \in oidc[u].subjects}) > 1
        PROVE  <<sub, "twice">> \in overlaps
    <3> DEFINE set == {u \in User : AC!Settled(u) /\ sub \in oidc[u].subjects}
    <3>1. IsFiniteSet(set) BY AccountsAssumption, FS_Subset
    <3>2. Cardinality(set) > 1 BY <2>2, AccountsCardinality
    <3> HIDE DEF set
    <3>3. PICK u \in set : \E w \in set \ {u} : TRUE BY <3>1, <3>2, TwoMembers
    <3>4. PICK w \in set \ {u} : TRUE BY <3>3
    <3> USE DEF set
    <3>5. /\ u \in User /\ w \in User \ {u} /\ Settled(u) /\ Settled(w)
          /\ sub \in oidc[u].subjects /\ sub \in oidc[w].subjects
          BY <3>3, <3>4 DEF AC!Settled, Settled
    <3> QED  BY <2>1, <3>5 DEF EnteringInv, OneAccount, Twice
  <2>3. AC!OneAccountEach BY <2>2 DEF AC!OneAccountEach
  <2>4. AC!RefreshKept
    <3> SUFFICES ASSUME NEW u \in User, oidc[u].token # 0
                 PROVE  \/ oidc[u].token \in grants
                        \/ <<u, "lost">> \in overlaps \/ <<u, "revoked">> \in overlaps
                        \/ \E r \in AC!asked : step[r] = "refresh" /\ held[r].name = u
        BY DEF AC!RefreshKept
    <3>1. TokenIsGood(u) BY <2>1 DEF RefreshInv
    <3>2. ASSUME NEW r \in AccountCall, Renews(r, u) PROVE r \in AC!asked
      BY <2>1, <3>2 DEF Renews, KindsInv, KindOf, AC!asked
    <3> QED  BY <3>1, <3>2 DEF TokenIsGood, Renews
  <2> QED  BY <2>3, <2>4 DEF ExternalUsersKept
<1> QED  BY <1>1, AccountsInvariant, PTL

-----------------------------------------------------------------------------
(* Lists: where the rows of an asset are in every order the database may use,   *)
(* and so what of them the pages up to a given row have shown.                  *)

RowsBefore(i) == {r \in LI!ListRows : LI!Precedes(r[1], i)}
RowsOf(i) == {r \in LI!ListRows : r[1] = i}
Ahead(i) == Cardinality(RowsBefore(i))
Repeats(i) == Cardinality(RowsOf(i))

\* How many of the rows of i are among the first n rows of the list.
Among(i, n) ==
  IF n <= Ahead(i) THEN 0
  ELSE IF n >= Ahead(i) + Repeats(i) THEN Repeats(i)
  ELSE n - Ahead(i)

Walking == listAt \in {"count", "slice"}

ListTyped ==
  /\ listing \in Listings
  /\ listRows \subseteq Item /\ links \subseteq listRows \X Via
  /\ status \in [Item -> {0, 1}]
  /\ listAt \in {"count", "slice", "done", "refused"}
  /\ page \in Nat \ {0} /\ count \in Nat
  /\ watch \subseteq Item /\ shown \in [Item -> Nat]
  /\ moved \in BOOLEAN /\ grown \in BOOLEAN /\ late \in BOOLEAN

\* The pages so far: the first one starts afresh, and a slice is cut by a count
\* that rows written since only make too small.
PagesInv ==
  /\ Walking /\ page = 1 => \A i \in Item : shown[i] = 0
  /\ listAt = "count" /\ page = 1 => watch = {}
  /\ late => grown
  /\ listAt = "slice" =>
       /\ LI!Bottom(page) <= count
       /\ ~ moved /\ ~ late => count = Cardinality(LI!ListRows)

\* What was there when the walk began is on a page already, or still to come.
WatchedInv ==
  LI!Total /\ ~ moved =>
    /\ watch \subseteq LI!ListedIn(LI!ListRows)
    /\ Walking => \A i \in watch : shown[i] = 0 => LI!Bottom(page) <= Ahead(i)
    /\ listAt = "done" /\ ~ late => \A i \in watch : shown[i] > 0

\* While the list is what it was, the pages are the first rows of it.
ShownInv ==
  LI!Total /\ ~ moved /\ ~ grown =>
    /\ Walking => \A i \in Item : shown[i] = Among(i, LI!Bottom(page))
    /\ listAt = "done" => \A i \in Item : shown[i] = Repeats(i)

ListInv == ListTyped /\ PagesInv /\ WatchedInv /\ ShownInv

-----------------------------------------------------------------------------
(* The rows of the list, and their order.                                       *)

LEMMA ListsCardinality == \A S : LI!Cardinality(S) = Cardinality(S)
  BY DEF LI!Cardinality, Cardinality

LEMMA ListRowsTyped ==
  ASSUME ListTyped
  PROVE  /\ LI!ListRows \subseteq Item \X (Via \union {NoVia})
         /\ \A r \in LI!ListRows : r[1] \in listRows
<1>1. ASSUME NEW i PROVE LI!Match(i) \subseteq {l \in links : l[1] = i}
  BY DEF LI!Match
<1>2. ASSUME NEW r \in LI!ListRows
      PROVE  r \in Item \X (Via \union {NoVia}) /\ r[1] \in listRows
  <2>1. CASE listing.asked = {}
    BY <1>2, <2>1 DEF LI!ListRows, ListTyped
  <2>2. CASE listing.asked # {} /\ LI!Distinct(listing.view)
    BY <1>2, <2>2 DEF LI!ListRows, ListTyped
  <2>3. CASE listing.asked # {} /\ ~ LI!Distinct(listing.view)
    <3>1. PICK i \in listRows : r \in LI!Match(i)
      BY <1>2, <2>3 DEF LI!ListRows
    <3> QED
      BY <3>1, <1>1 DEF ListTyped
  <2> QED
    BY <2>1, <2>2, <2>3
<1> QED
  BY <1>2

LEMMA ListRowsFinite == ListTyped => IsFiniteSet(LI!ListRows)
<1> SUFFICES ASSUME ListTyped PROVE IsFiniteSet(LI!ListRows)
  OBVIOUS
<1>1. IsFiniteSet(Via \union {NoVia})
  BY ListsAssumption, FS_AddElement
<1>2. IsFiniteSet(Item \X (Via \union {NoVia}))
  BY <1>1, ListsAssumption, FS_Product
<1> QED
  BY <1>2, ListRowsTyped, FS_Subset

LEMMA PlacesTyped ==
  ASSUME ListTyped, NEW i
  PROVE  /\ IsFiniteSet(RowsBefore(i)) /\ IsFiniteSet(RowsOf(i))
         /\ Ahead(i) \in Nat /\ Repeats(i) \in Nat
         /\ Repeats(i) = 0 <=> i \notin LI!ListedIn(LI!ListRows)
<1>1. IsFiniteSet(RowsBefore(i)) /\ IsFiniteSet(RowsOf(i))
  BY ListRowsFinite, FS_Subset DEF RowsBefore, RowsOf
<1>2. Ahead(i) \in Nat /\ Repeats(i) \in Nat /\ (Repeats(i) = 0 <=> RowsOf(i) = {})
  BY <1>1, FS_CardinalityType, FS_EmptySet DEF Ahead, Repeats
<1>3. RowsOf(i) = {} <=> i \notin LI!ListedIn(LI!ListRows)
  BY DEF RowsOf, LI!ListedIn
<1> QED
  BY <1>1, <1>2, <1>3

\* What the orders compare are numbers.
LEMMA OrderTyped ==
  ASSUME ListTyped
  PROVE  /\ \A n \in DOMAIN LI!OrderBy : n \in Nat /\ 1..n \subseteq DOMAIN LI!OrderBy
         /\ \A n \in DOMAIN LI!OrderBy : \A i \in Item : LI!Field(LI!OrderBy[n], i) \in Nat
         /\ listing.ordering # "status" => \A n \in DOMAIN LI!OrderBy : LI!OrderBy[n] # "status"
<1> DEFINE Fields == {"created", "key", "rank", "round", "worker", "identifier", "position"}
<1>0. /\ listing.ordering \in {"default", "rank", "status"}
      /\ \A d \in Fields : listing.field[d] \in [Item -> Nat]
  BY ListsAssumption DEF ListTyped
<1>1. /\ LI!OrderBy \in Seq(Fields \union {"status"})
      /\ listing.ordering # "status" => LI!OrderBy \in Seq(Fields)
  <2>1. CASE listing.ordering = "status"
    BY <2>1 DEF LI!OrderBy
  <2>2. CASE listing.ordering = "rank"
    BY <2>2 DEF LI!OrderBy
  <2>3. CASE listing.ordering = "default"
    <3>1. LI!OrderBy \in
            {LI!AssetOrder(listing.view), LI!PerformanceOrder, LI!DefaultOrder(listing.view)}
      BY <2>3 DEF LI!OrderBy
    <3>2. ASSUME NEW v
          PROVE  {LI!AssetOrder(v), LI!PerformanceOrder, LI!DefaultOrder(v)} \subseteq Seq(Fields)
      <4>1. <<"identifier", "position">> \in Seq(Fields) /\ <<"identifier">> \in Seq(Fields)
        OBVIOUS
      <4>2. <<"rank", "round", "worker">> \in Seq(Fields) /\ <<"rank", "worker">> \in Seq(Fields)
        OBVIOUS
      <4>3. <<"created", "key">> \in Seq(Fields)
        OBVIOUS
      <4> QED
        BY <4>1, <4>2, <4>3, Zenon DEF LI!AssetOrder, LI!PerformanceOrder, LI!DefaultOrder
    <3>3. Seq(Fields) \subseteq Seq(Fields \union {"status"})
      OBVIOUS
    <3> QED
      BY <2>3, <3>1, <3>2, <3>3
  <2> QED
    BY <1>0, <2>1, <2>2, <2>3
<1>2. ASSUME NEW f \in Fields \union {"status"}, NEW i \in Item
      PROVE  LI!Field(f, i) \in Nat
  <2>1. CASE f = "status"
    BY <2>1 DEF LI!Field, ListTyped
  <2>2. CASE f # "status"
    BY <1>0, <1>2, <2>2 DEF LI!Field
  <2> QED
    BY <2>1, <2>2
<1> HIDE DEF Fields
<1>3. \A n \in DOMAIN LI!OrderBy :
        n \in Nat /\ 1..n \subseteq DOMAIN LI!OrderBy /\ LI!OrderBy[n] \in Fields \union {"status"}
  BY <1>1
<1>4. listing.ordering # "status" => \A n \in DOMAIN LI!OrderBy : LI!OrderBy[n] \in Fields
  BY <1>1
<1> QED
  BY <1>2, <1>3, <1>4 DEF Fields

LEMMA NeverBeforeItself == ListTyped => \A i \in Item : ~ LI!Precedes(i, i)
  BY OrderTyped DEF LI!Precedes

\* The key decides where the creation date does not, the position where the
\* identifier does not.
LEMMA TotalOrders ==
  ASSUME ListTyped, LI!Total
  PROVE  \A i, j \in LI!ListedIn(LI!ListRows) :
           i = j \/ LI!Precedes(i, j) \/ LI!Precedes(j, i)
<1> SUFFICES ASSUME listing.ordering = "default",
                    listing.view \notin {"outputAssets", "performances"},
                    NEW i \in Item, NEW j \in Item, i # j
             PROVE  LI!Precedes(i, j) \/ LI!Precedes(j, i)
  BY ListRowsTyped DEF LI!Total, LI!ListedIn
<1>0. listing \in Listings
  BY DEF ListTyped
<1>1. ASSUME NEW f, NEW g, LI!OrderBy = <<f, g>>, f # "status", g # "status",
             listing.field[f] \in [Item -> Nat], listing.field[g] \in [Item -> Nat],
             listing.field[f][i] # listing.field[f][j] \/ listing.field[g][i] # listing.field[g][j]
      PROVE  LI!Precedes(i, j) \/ LI!Precedes(j, i)
  <2> DEFINE main(k) == listing.field[f][k]
             tie(k) == listing.field[g][k]
  <2>1. main(i) \in Nat /\ main(j) \in Nat /\ tie(i) \in Nat /\ tie(j) \in Nat
    BY <1>1
  <2>2. /\ DOMAIN LI!OrderBy = {1, 2} /\ LI!OrderBy[1] = f /\ LI!OrderBy[2] = g
        /\ \A k : LI!Field(f, k) = main(k) /\ LI!Field(g, k) = tie(k)
    BY <1>1 DEF LI!Field
  <2>3. main(i) # main(j) \/ tie(i) # tie(j)
    BY <1>1
  <2> HIDE DEF main, tie
  <2>4. ASSUME NEW x, NEW y, main(x) < main(y) PROVE LI!Precedes(x, y)
    BY <2>2, <2>4 DEF LI!Precedes
  <2>5. ASSUME NEW x, NEW y, main(x) = main(y), tie(x) < tie(y) PROVE LI!Precedes(x, y)
    BY <2>2, <2>5 DEF LI!Precedes
  <2>6. \/ main(i) < main(j) \/ main(j) < main(i)
        \/ main(i) = main(j) /\ (tie(i) < tie(j) \/ tie(j) < tie(i))
    BY <2>1, <2>3
  <2> QED
    BY <2>4, <2>5, <2>6
<1>2. CASE listing.view = "inputAssets"
  <2>1. LI!OrderBy = <<"identifier", "position">>
    BY <1>2 DEF LI!OrderBy, LI!AssetOrder
  <2>2. \/ listing.field["identifier"][i] # listing.field["identifier"][j]
        \/ listing.field["position"][i] # listing.field["position"][j]
    BY <1>0, <1>2, ListsAssumption
  <2>3. listing.field["identifier"] \in [Item -> Nat] /\ listing.field["position"] \in [Item -> Nat]
    BY <1>0, ListsAssumption
  <2> QED
    BY <1>1, <2>1, <2>2, <2>3
<1>3. CASE listing.view # "inputAssets"
  <2>1. LI!OrderBy = <<"created", "key">>
    BY <1>3 DEF LI!OrderBy, LI!DefaultOrder
  <2>2. listing.field["key"][i] # listing.field["key"][j]
    BY <1>0, ListsAssumption
  <2>3. listing.field["created"] \in [Item -> Nat] /\ listing.field["key"] \in [Item -> Nat]
    BY <1>0, ListsAssumption
  <2> QED
    BY <1>1, <2>1, <2>2, <2>3
<1> QED
  BY <1>2, <1>3

\* Sorted rows are all the rows, each at one place.
LEMMA SortedRows ==
  ASSUME ListTyped, NEW s \in LI!Sorted(LI!ListRows)
  PROVE  /\ DOMAIN s = 1..Cardinality(LI!ListRows)
         /\ Cardinality(LI!ListRows) \in Nat
         /\ s \in Bijection(DOMAIN s, LI!ListRows)
         /\ \A m, n \in DOMAIN s : m < n => ~ LI!Precedes(s[n][1], s[m][1])
<1> DEFINE rs == LI!ListRows
           places == 1..Cardinality(rs)
<1>1. /\ s \in [places -> rs]
      /\ \A m, n \in places : m # n => s[m] # s[n]
      /\ \A m, n \in DOMAIN s : m < n => ~ LI!Precedes(s[n][1], s[m][1])
  BY ListsCardinality DEF LI!Sorted, LI!SetToSeqs
<1>2. IsFiniteSet(rs) /\ Cardinality(rs) \in Nat
  BY ListRowsFinite, FS_CardinalityType
<1>3. IsFiniteSet(places) /\ Cardinality(places) = Cardinality(rs)
  BY <1>2, FS_Interval
<1>4. s \in Injection(places, rs)
  BY <1>1 DEF Injection, IsInjective
<1> HIDE DEF rs, places
<1>5. s \in Surjection(places, rs)
  BY <1>2, <1>3, <1>4, FS_Injection
<1> QED
  BY <1>1, <1>2, <1>4, <1>5 DEF Bijection, rs, places

\* Whatever order the database chooses, an order without ties puts the rows of an
\* asset right after those of the assets it comes after.
LEMMA SortedPlaces ==
  ASSUME ListTyped, LI!Total, NEW s \in LI!Sorted(LI!ListRows), NEW i \in Item
  PROVE  /\ {n \in DOMAIN s : s[n][1] = i} = (Ahead(i) + 1)..(Ahead(i) + Repeats(i))
         /\ Ahead(i) + Repeats(i) <= Cardinality(LI!ListRows)
<1> DEFINE rs == LI!ListRows
           size == Cardinality(rs)
           mine == {n \in DOMAIN s : s[n][1] = i}
<1>1. /\ DOMAIN s = 1..size /\ size \in Nat
      /\ \A n \in DOMAIN s : s[n] \in rs
      /\ \A m, n \in DOMAIN s : s[m] = s[n] => m = n
      /\ \A r \in rs : \E n \in DOMAIN s : s[n] = r
      /\ \A m, n \in DOMAIN s : m < n => ~ LI!Precedes(s[n][1], s[m][1])
  BY SortedRows DEF Bijection, Injection, Surjection, IsInjective
<1>2. /\ IsFiniteSet(RowsBefore(i)) /\ IsFiniteSet(RowsOf(i))
      /\ Ahead(i) \in Nat /\ Repeats(i) \in Nat
  BY PlacesTyped
<1>3. ~ LI!Precedes(i, i)
  BY NeverBeforeItself
<1>4. ASSUME NEW n \in mine PROVE Ahead(i) < n
  <2> DEFINE f == [r \in RowsBefore(i) |-> CHOOSE m \in DOMAIN s : s[m] = r]
  <2>1. ASSUME NEW r \in RowsBefore(i)
        PROVE  f[r] \in DOMAIN s /\ s[f[r]] = r /\ f[r] \in 1..(n - 1)
    <3>1. r \in rs /\ LI!Precedes(r[1], i)
      BY DEF RowsBefore
    <3>2. f[r] \in DOMAIN s /\ s[f[r]] = r
      BY <1>1, <3>1
    <3>3. f[r] # n /\ ~ n < f[r]
      BY <1>1, <1>3, <3>1, <3>2
    <3> QED
      BY <1>1, <3>2, <3>3
  <2>2. f \in Injection(RowsBefore(i), 1..(n - 1))
    <3> HIDE DEF f
    <3>1. f \in [RowsBefore(i) -> 1..(n - 1)]
      <4>1. DOMAIN f = RowsBefore(i) /\ f = [r \in RowsBefore(i) |-> f[r]]
        BY DEF f
      <4> QED
        BY <2>1, <4>1
    <3>2. \A q, r \in RowsBefore(i) : f[q] = f[r] => q = r
      BY <2>1
    <3> QED
      BY <3>1, <3>2 DEF Injection, IsInjective
  <2>3. n \in Nat \ {0}
    BY <1>1
  <2>4. IsFiniteSet(1..(n - 1)) /\ Cardinality(1..(n - 1)) = n - 1
    BY <2>3, FS_Interval
  <2>5. Ahead(i) <= n - 1
    BY <1>2, <2>2, <2>4, FS_Injection DEF Ahead
  <2> QED
    BY <1>2, <2>3, <2>5
<1>5. ASSUME NEW n \in mine PROVE n <= Ahead(i) + Repeats(i)
  <2> DEFINE g == [m \in 1..n |-> s[m]]
             near == RowsBefore(i) \union RowsOf(i)
  <2>1. n \in Nat \ {0} /\ 1..n \subseteq DOMAIN s
    BY <1>1
  <2>2. ASSUME NEW m \in 1..n PROVE s[m] \in near
    <3>1. m \in DOMAIN s /\ s[m] \in rs /\ s[n] \in rs /\ s[n][1] = i
      BY <1>1, <2>1
    <3>2. s[m][1] = i \/ LI!Precedes(s[m][1], i)
      <4>1. CASE m = n
        BY <3>1, <4>1
      <4>2. CASE m < n
        BY <1>1, <3>1, <4>2, TotalOrders DEF LI!ListedIn
      <4> QED
        BY <2>1, <4>1, <4>2
    <3> QED
      BY <3>1, <3>2 DEF RowsBefore, RowsOf
  <2>3. g \in Injection(1..n, near)
    <3>1. g \in [1..n -> near]
      BY <2>2
    <3>2. \A q, r \in 1..n : g[q] = g[r] => q = r
      BY <1>1, <2>1
    <3> QED
      BY <3>1, <3>2 DEF Injection, IsInjective
  <2>4. /\ IsFiniteSet(near)
        /\ Cardinality(near) = Ahead(i) + Repeats(i) - Cardinality(RowsBefore(i) \intersect RowsOf(i))
    BY <1>2, FS_Union DEF Ahead, Repeats
  <2>5. RowsBefore(i) \intersect RowsOf(i) = {}
    BY <1>3 DEF RowsBefore, RowsOf
  <2>6. Cardinality(near) = Ahead(i) + Repeats(i)
    BY <1>2, <2>4, <2>5, FS_EmptySet
  <2>7. IsFiniteSet(1..n) /\ Cardinality(1..n) = n
    BY <2>1, FS_Interval
  <2> QED
    BY <2>3, <2>4, <2>6, <2>7, FS_Injection
<1>6. IsFiniteSet(mine) /\ Cardinality(mine) = Repeats(i)
  <2> DEFINE h == [r \in RowsOf(i) |-> CHOOSE m \in DOMAIN s : s[m] = r]
  <2>1. ASSUME NEW r \in RowsOf(i) PROVE h[r] \in mine /\ s[h[r]] = r
    <3>1. r \in rs /\ r[1] = i
      BY DEF RowsOf
    <3>2. h[r] \in DOMAIN s /\ s[h[r]] = r
      BY <1>1, <3>1
    <3> QED
      BY <3>1, <3>2
  <2>2. h \in Bijection(RowsOf(i), mine)
    <3>1. DOMAIN h = RowsOf(i) /\ h = [r \in RowsOf(i) |-> h[r]]
      OBVIOUS
    <3> HIDE DEF h
    <3>2. h \in [RowsOf(i) -> mine]
      BY <2>1, <3>1
    <3>3. \A q, r \in RowsOf(i) : h[q] = h[r] => q = r
      BY <2>1
    <3>4. ASSUME NEW n \in mine PROVE \E r \in RowsOf(i) : h[r] = n
      <4>1. s[n] \in RowsOf(i)
        BY <1>1 DEF RowsOf
      <4>2. s[h[s[n]]] = s[n] /\ h[s[n]] \in DOMAIN s
        BY <2>1, <4>1
      <4> QED
        BY <1>1, <4>1, <4>2
    <3> QED
      BY <3>2, <3>3, <3>4 DEF Bijection, Injection, Surjection, IsInjective
  <2> HIDE DEF h, mine
  <2>3. IsFiniteSet(mine) /\ Cardinality(RowsOf(i)) = Cardinality(mine)
    BY <1>2, <2>2, FS_Bijection DEF ExistsBijection
  <2> QED
    BY <2>3 DEF Repeats
<1> DEFINE run == (Ahead(i) + 1)..(Ahead(i) + Repeats(i))
<1>7. mine \subseteq run
  BY <1>1, <1>2, <1>4, <1>5
<1>8. IsFiniteSet(run) /\ Cardinality(run) = Repeats(i)
  <2> DEFINE from == Ahead(i) + 1
             to == Ahead(i) + Repeats(i)
  <2>1. from \in Int /\ to \in Int /\ (IF from > to THEN 0 ELSE to - from + 1) = Repeats(i)
    BY <1>2
  <2> HIDE DEF from, to
  <2>2. IsFiniteSet(from..to) /\ Cardinality(from..to) = Repeats(i)
    BY <2>1, FS_Interval
  <2> QED
    BY <2>2 DEF from, to
<1>9. mine = run
  <2> HIDE DEF mine, run
  <2> QED
    BY <1>6, <1>7, <1>8, FS_Subset
<1>10. Ahead(i) + Repeats(i) <= size
  <2>1. RowsBefore(i) \union RowsOf(i) \subseteq rs /\ RowsBefore(i) \intersect RowsOf(i) = {}
    BY <1>3 DEF RowsBefore, RowsOf
  <2>2. Cardinality(RowsBefore(i) \union RowsOf(i)) = Ahead(i) + Repeats(i) - Cardinality(RowsBefore(i) \intersect RowsOf(i))
    BY <1>2, FS_Union DEF Ahead, Repeats
  <2>3. Cardinality(RowsBefore(i) \union RowsOf(i)) <= size
    BY <2>1, ListRowsFinite, FS_Subset
  <2>4. Cardinality(RowsBefore(i) \intersect RowsOf(i)) = 0
    BY <2>1, FS_EmptySet
  <2> QED
    BY <1>2, <2>2, <2>3, <2>4
<1> QED
  BY <1>9, <1>10

\* A page shows of an asset what is among the rows up to its end and not before.
LEMMA SliceShows ==
  ASSUME ListTyped, LI!Total, NEW s \in LI!Sorted(LI!ListRows), NEW i \in Item,
         NEW low \in Nat, NEW high \in Nat, low <= high
  PROVE  Cardinality({n \in {m \in DOMAIN s : low < m /\ m <= high} : s[n][1] = i})
           = Among(i, high) - Among(i, low)
<1>1. Ahead(i) \in Nat /\ Repeats(i) \in Nat
  BY PlacesTyped
<1> DEFINE from == Ahead(i) + 1
           to == Ahead(i) + Repeats(i)
           start == IF low + 1 >= from THEN low + 1 ELSE from
           end == IF high <= to THEN high ELSE to
           cut == {n \in {m \in DOMAIN s : low < m /\ m <= high} : s[n][1] = i}
<1>2. cut = {n \in from..to : low < n /\ n <= high}
  BY SortedPlaces
<1>3. cut = start..end /\ start \in Int /\ end \in Int
  BY <1>1, <1>2
<1>4. Cardinality(cut) = IF start > end THEN 0 ELSE end - start + 1
  BY <1>3, FS_Interval
<1> QED
  BY <1>1, <1>4 DEF Among

-----------------------------------------------------------------------------
(* What the writers do to a walk.                                               *)

ListWriters == \E i \in Item : LI!Insert(i) \/ LI!Update(i) \/ \E v \in Via : LI!Link(i, v)

\* A write adds rows, or an update takes one out or moves it, which is noted.
ListWritten ==
  /\ UNCHANGED <<listing, listAt, page, count, watch, shown>>
  /\ moved \in BOOLEAN => moved' \in BOOLEAN
  /\ moved => moved'
  /\ grown' = (grown \/ LI!ListRows' \ LI!ListRows # {})
  /\ late' = (late \/ (listAt = "slice" /\ LI!ListRows' \ LI!ListRows # {}))
  /\ ~ moved' =>
       /\ LI!ListRows \subseteq LI!ListRows'
       /\ \A i, j : LI!Precedes(i, j)' <=> LI!Precedes(i, j)

LEMMA PassesSame ==
  ASSUME listing' = listing, NEW i, status'[i] = status[i] \/ listing.status = {}
  PROVE  LI!Passes(i)' <=> LI!Passes(i)
<1>1. LI!StatusFilter(i)' <=> LI!StatusFilter(i)
  BY DEF LI!StatusFilter
<1>2. /\ LI!OwnerFilter(i)' <=> LI!OwnerFilter(i)
      /\ LI!IdentifierFilter(i)' <=> LI!IdentifierFilter(i)
      /\ LI!PermissionFilter(i)' <=> LI!PermissionFilter(i)
  BY DEF LI!OwnerFilter, LI!IdentifierFilter, LI!PermissionFilter
<1>3. LI!MetadataFilter(i)' <=> LI!MetadataFilter(i)
  BY Zenon DEF LI!MetadataFilter, LI!WellFormed, LI!InEffect, LI!Holds, LI!HasKey
<1> QED
  BY <1>1, <1>2, <1>3 DEF LI!Passes

LEMMA PrecedesSame ==
  ASSUME ListTyped, listing' = listing, status' = status \/ listing.ordering # "status"
  PROVE  \A i, j : LI!Precedes(i, j)' <=> LI!Precedes(i, j)
<1>1. LI!OrderBy' = LI!OrderBy
  BY DEF LI!OrderBy
<1>2. ASSUME NEW n \in DOMAIN LI!OrderBy, NEW i
      PROVE  LI!Field(LI!OrderBy[n], i)' = LI!Field(LI!OrderBy[n], i)
  BY <1>1, OrderTyped DEF LI!Field
<1>3. ASSUME NEW n \in DOMAIN LI!OrderBy, NEW m \in 1..(n - 1) PROVE m \in DOMAIN LI!OrderBy
  BY OrderTyped
<1> DEFINE f(n, i) == LI!Field(LI!OrderBy[n], i)
<1>4. \A n \in DOMAIN LI!OrderBy : \A i : f(n, i)' = f(n, i)
  BY <1>1, <1>2
<1> HIDE DEF f
<1>5. \A i, j : LI!Precedes(i, j) <=>
        \E n \in DOMAIN LI!OrderBy : f(n, i) < f(n, j) /\ \A m \in 1..(n - 1) : f(m, i) = f(m, j)
  BY DEF LI!Precedes, f
<1>6. \A i, j : LI!Precedes(i, j)' <=>
        \E n \in DOMAIN LI!OrderBy : f(n, i)' < f(n, j)' /\ \A m \in 1..(n - 1) : f(m, i)' = f(m, j)'
  BY <1>1 DEF LI!Precedes, f
<1> QED
  BY <1>3, <1>4, <1>5, <1>6

\* More assets and more links make a longer list.
LEMMA RowsGrow ==
  ASSUME listing' = listing, listRows \subseteq listRows', links \subseteq links',
         \A i \in listRows : LI!Passes(i)' <=> LI!Passes(i)
  PROVE  LI!ListRows \subseteq LI!ListRows'
<1>1. \A i : LI!Match(i) \subseteq LI!Match(i)'
  BY DEF LI!Match
<1>2. \A i \in listRows : LI!Passes(i) => i \in listRows' /\ LI!Passes(i)'
  OBVIOUS
<1>3. CASE listing.asked = {}
  BY <1>2, <1>3 DEF LI!ListRows
<1>4. CASE listing.asked # {} /\ LI!Distinct(listing.view)
  <2>1. \A i : LI!Match(i) # {} => LI!Match(i)' # {}
    BY <1>1
  <2> QED
    BY <1>2, <1>4, <2>1 DEF LI!ListRows
<1>5. CASE listing.asked # {} /\ ~ LI!Distinct(listing.view)
  <2>1. ASSUME NEW r \in LI!ListRows PROVE r \in LI!ListRows'
    <3>1. PICK i \in listRows : LI!Passes(i) /\ r \in LI!Match(i)
      BY <1>5 DEF LI!ListRows
    <3>2. i \in listRows' /\ LI!Passes(i)' /\ r \in LI!Match(i)'
      BY <1>1, <1>2, <3>1
    <3>3. ~ LI!Distinct(listing.view)' /\ (listing.asked # {})'
      BY <1>5 DEF LI!Distinct
    <3> QED
      BY <3>2, <3>3 DEF LI!ListRows, LI!Distinct
  <2> QED
    BY <2>1
<1> QED
  BY <1>3, <1>4, <1>5

LEMMA ListWriteEffect == ListTyped /\ ListWriters => ListWritten
<1> SUFFICES ASSUME ListTyped, ListWriters PROVE ListWritten
  OBVIOUS
<1>1. ASSUME NEW i \in Item, LI!Insert(i) PROVE ListWritten
  <2>1. UNCHANGED <<listing, listAt, page, count, watch, shown, links, status, moved>>
        /\ listRows' = listRows \union {i}
        /\ LI!Note(LI!ListRows, LI!ListRows')
    BY <1>1 DEF LI!Insert, LI!reader
  <2>2. LI!ListRows \subseteq LI!ListRows'
    BY <2>1, PassesSame, RowsGrow
  <2> QED
    BY <2>1, <2>2, PrecedesSame DEF ListWritten, LI!Note
<1>2. ASSUME NEW i \in Item, NEW v \in Via, LI!Link(i, v) PROVE ListWritten
  <2>1. UNCHANGED <<listing, listAt, page, count, watch, shown, listRows, status, moved>>
        /\ links' = links \union {<<i, v>>}
        /\ LI!Note(LI!ListRows, LI!ListRows')
    BY <1>2 DEF LI!Link, LI!reader
  <2>2. LI!ListRows \subseteq LI!ListRows'
    BY <2>1, PassesSame, RowsGrow
  <2> QED
    BY <2>1, <2>2, PrecedesSame DEF ListWritten, LI!Note
<1>3. ASSUME NEW i \in Item, LI!Update(i) PROVE ListWritten
  <2>1. UNCHANGED <<listing, listAt, page, count, watch, shown, listRows, links>>
        /\ moved' = (moved \/ listing.ordering = "status" \/ listing.status # {})
        /\ LI!Note(LI!ListRows, LI!ListRows')
    BY <1>3 DEF LI!Update, LI!reader
  <2>2. ASSUME ~ moved' PROVE LI!ListRows \subseteq LI!ListRows'
    BY <2>1, <2>2, PassesSame, RowsGrow
  <2>3. ASSUME ~ moved' PROVE \A j, k : LI!Precedes(j, k)' <=> LI!Precedes(j, k)
    BY <2>1, <2>3, PrecedesSame
  <2> QED
    BY <2>1, <2>2, <2>3 DEF ListWritten, LI!Note
<1> QED
  BY <1>1, <1>2, <1>3 DEF ListWriters

LEMMA ListTypedStep == ListTyped /\ [LI!Next]_(LI!vars) => ListTyped'
<1> SUFFICES ASSUME ListTyped, [LI!Next]_(LI!vars) PROVE ListTyped'
  OBVIOUS
<1>1. ASSUME NEW i \in Item, LI!Insert(i) PROVE ListTyped'
  BY <1>1 DEF LI!Insert, LI!reader, LI!Note, ListTyped
<1>2. ASSUME NEW i \in Item, NEW v \in Via, LI!Link(i, v) PROVE ListTyped'
  BY <1>2 DEF LI!Link, LI!reader, LI!Note, ListTyped
<1>3. ASSUME NEW i \in Item, LI!Update(i) PROVE ListTyped'
  <2>1. status' \in [Item -> {0, 1}]
    BY <1>3 DEF LI!Update, ListTyped
  <2> QED
    BY <1>3, <2>1 DEF LI!Update, LI!reader, LI!Note, ListTyped
<1>4. ASSUME LI!ReadCount PROVE ListTyped'
  <2>1. count' \in Nat
    BY <1>4, ListRowsFinite, FS_CardinalityType, ListsCardinality DEF LI!ReadCount
  <2>2. watch' \subseteq Item
    BY <1>4, ListRowsTyped DEF LI!ReadCount, LI!ListedIn, ListTyped
  <2> QED
    BY <1>4, <2>1, <2>2 DEF LI!ReadCount, ListTyped
<1>5. ASSUME LI!ReadSlice PROVE ListTyped'
  <2>1. PICK s \in LI!Sorted(LI!ListRows) :
          shown' = [i \in Item |->
            shown[i] + LI!Cardinality({n \in LI!Slice(s, page, count) : s[n][1] = i})]
    BY <1>5 DEF LI!ReadSlice
  <2>2. ASSUME NEW i \in Item
        PROVE  LI!Cardinality({n \in LI!Slice(s, page, count) : s[n][1] = i}) \in Nat
    <3>1. DOMAIN s = 1..Cardinality(LI!ListRows) /\ Cardinality(LI!ListRows) \in Nat
      BY SortedRows
    <3>2. IsFiniteSet(DOMAIN s)
      BY <3>1, FS_Interval
    <3>3. {n \in LI!Slice(s, page, count) : s[n][1] = i} \in SUBSET DOMAIN s
      BY DEF LI!Slice
    <3> QED
      BY <3>2, <3>3, FS_Subset, FS_CardinalityType, ListsCardinality
  <2>3. shown' \in [Item -> Nat]
    BY <2>1, <2>2 DEF ListTyped
  <2> QED
    BY <1>5, <2>3 DEF LI!ReadSlice, ListTyped
<1>6. CASE UNCHANGED LI!vars
  BY <1>6 DEF LI!vars, ListTyped
<1> QED
  BY <1>1, <1>2, <1>3, <1>4, <1>5, <1>6 DEF LI!Next

-----------------------------------------------------------------------------
(* The invariant.                                                               *)

LEMMA PagesBetween ==
  ASSUME ListTyped
  PROVE  /\ LI!Bottom(page) \in Nat /\ LI!Bottom(page + 1) = LI!Bottom(page) + PageSize
         /\ page = 1 => LI!Bottom(page) = 0
<1> page \in Nat /\ page >= 1 /\ PageSize \in Nat
  BY ReadsAssumption DEF ListTyped
<1>1. (page - 1) * PageSize \in Nat /\ (page + 1 - 1) * PageSize = (page - 1) * PageSize + PageSize
  OBVIOUS
<1>2. page = 1 => (page - 1) * PageSize = 0
  OBVIOUS
<1> QED
  BY <1>1, <1>2 DEF LI!Bottom

\* Rows that are added keep their place or give way to others.
LEMMA PlacesStep ==
  ASSUME ListTyped, ListTyped', ListWritten, ~ moved'
  PROVE  /\ LI!Total' => LI!Total
         /\ LI!ListedIn(LI!ListRows) \subseteq LI!ListedIn(LI!ListRows')
         /\ \A i : Ahead(i) <= Ahead(i)'
         /\ ~ grown' => /\ LI!ListRows' = LI!ListRows
                        /\ \A i : Ahead(i)' = Ahead(i) /\ Repeats(i)' = Repeats(i)
<1>1. /\ LI!ListRows \subseteq LI!ListRows'
      /\ \A i, j : LI!Precedes(i, j)' <=> LI!Precedes(i, j)
      /\ listing' = listing
  BY DEF ListWritten
<1>2. LI!ListedIn(LI!ListRows) \subseteq LI!ListedIn(LI!ListRows')
  BY <1>1 DEF LI!ListedIn
<1>3. ASSUME LI!Total' PROVE LI!Total
  <2>1. CASE /\ listing.ordering = "default"
             /\ listing.view \notin {"outputAssets", "performances"}
    BY <2>1 DEF LI!Total
  <2>2. CASE \A i, j \in LI!ListedIn(LI!ListRows)' :
               i = j \/ LI!Precedes(i, j)' \/ LI!Precedes(j, i)'
    <3>1. LI!ListedIn(LI!ListRows)' = LI!ListedIn(LI!ListRows')
      BY DEF LI!ListedIn
    <3>2. \A i, j \in LI!ListedIn(LI!ListRows) : i = j \/ LI!Precedes(i, j) \/ LI!Precedes(j, i)
      BY <1>1, <1>2, <2>2, <3>1
    <3> QED
      BY <3>2 DEF LI!Total
  <2>3. \/ listing.ordering = "default"
           /\ listing.view \notin {"outputAssets", "performances"}
        \/ \A i, j \in LI!ListedIn(LI!ListRows)' :
             i = j \/ LI!Precedes(i, j)' \/ LI!Precedes(j, i)'
    BY <1>1, <1>3 DEF LI!Total
  <2> QED
    BY <2>1, <2>2, <2>3
<1>4. \A i : /\ RowsBefore(i)' = {r \in LI!ListRows' : LI!Precedes(r[1], i)}
             /\ RowsOf(i)' = {r \in LI!ListRows' : r[1] = i}
  BY <1>1 DEF RowsBefore, RowsOf
<1>5. ASSUME NEW i PROVE Ahead(i) <= Ahead(i)'
  <2>1. IsFiniteSet(LI!ListRows)'
    <3>1. (ListTyped => IsFiniteSet(LI!ListRows))'
      BY ListRowsFinite, PTL
    <3> QED
      BY <3>1
  <2>2. IsFiniteSet(RowsBefore(i)')
    BY <1>4, <2>1, FS_Subset
  <2>3. RowsBefore(i) \in SUBSET RowsBefore(i)'
    BY <1>1, <1>4 DEF RowsBefore
  <2> QED
    BY <2>2, <2>3, FS_Subset DEF Ahead
<1>6. ASSUME ~ grown' PROVE /\ LI!ListRows' = LI!ListRows
                            /\ \A i : Ahead(i)' = Ahead(i) /\ Repeats(i)' = Repeats(i)
  <2>1. LI!ListRows' = LI!ListRows
    BY <1>1, <1>6 DEF ListWritten
  <2>2. \A i : RowsBefore(i)' = RowsBefore(i) /\ RowsOf(i)' = RowsOf(i)
    BY <1>4, <2>1 DEF RowsBefore, RowsOf
  <2> QED
    BY <2>1, <2>2 DEF Ahead, Repeats
<1> QED
  BY <1>2, <1>3, <1>5, <1>6

LEMMA ListWriteStep ==
  ASSUME ListInv, ListTyped', ListWritten
  PROVE  (PagesInv /\ WatchedInv /\ ShownInv)'
<1> USE DEF ListInv
<1>0. /\ UNCHANGED <<listing, listAt, page, count, watch, shown, LI!Bottom(page)>>
      /\ (moved => moved') /\ (grown => grown') /\ (late => late')
      /\ Walking' = Walking
  BY DEF ListWritten, Walking, LI!Bottom
<1>1. PagesInv'
  <2>1. ASSUME listAt = "slice", ~ moved', ~ late'
        PROVE  Cardinality(LI!ListRows) = Cardinality(LI!ListRows')
    <3>1. LI!ListRows \subseteq LI!ListRows' /\ LI!ListRows' \ LI!ListRows = {}
      BY <2>1 DEF ListWritten
    <3> QED
      BY <3>1
  <2>2. late' => grown'
    BY DEF PagesInv, ListWritten
  <2>3. Cardinality(LI!ListRows)' = Cardinality(LI!ListRows')
    OBVIOUS
  <2> QED
    BY <1>0, <2>1, <2>2, <2>3 DEF PagesInv
<1>2. ASSUME LI!Total', ~ moved'
      PROVE  /\ watch' \subseteq LI!ListedIn(LI!ListRows)'
             /\ Walking' => \A i \in watch' : shown'[i] = 0 => LI!Bottom(page)' <= Ahead(i)'
             /\ listAt' = "done" /\ ~ late' => \A i \in watch' : shown'[i] > 0
  <2>1. LI!Total /\ ~ moved
    BY <1>0, <1>2, PlacesStep
  <2>2. LI!ListedIn(LI!ListRows) \subseteq LI!ListedIn(LI!ListRows)'
    <3>1. LI!ListedIn(LI!ListRows)' = LI!ListedIn(LI!ListRows')
      BY DEF LI!ListedIn
    <3> QED
      BY <1>2, <3>1, PlacesStep
  <2>3. ASSUME NEW i, LI!Bottom(page) <= Ahead(i) PROVE LI!Bottom(page) <= Ahead(i)'
    <3> DEFINE low == LI!Bottom(page)
               before == Ahead(i)
               after == Ahead(i)'
    <3>1. low \in Nat /\ before \in Nat
      BY PagesBetween, PlacesTyped
    <3>2. after \in Nat
      <4>1. (ListTyped => IsFiniteSet(LI!ListRows))'
        BY ListRowsFinite, PTL
      <4>2. RowsBefore(i)' \in SUBSET LI!ListRows'
        BY DEF RowsBefore
      <4> QED
        BY <4>1, <4>2, FS_Subset, FS_CardinalityType DEF Ahead
    <3>3. before <= after
      BY <1>2, PlacesStep
    <3>4. low <= before
      BY <2>3
    <3> HIDE DEF low, before, after
    <3>5. low <= after
      BY <3>1, <3>2, <3>3, <3>4
    <3> QED
      BY <3>5 DEF low, after
  <2> QED
    BY <1>0, <2>1, <2>2, <2>3 DEF WatchedInv
<1>3. ASSUME LI!Total', ~ moved', ~ grown'
      PROVE  /\ Walking' => \A i \in Item : shown'[i] = Among(i, LI!Bottom(page))'
             /\ listAt' = "done" => \A i \in Item : shown'[i] = Repeats(i)'
  <2>1. LI!Total /\ ~ moved /\ ~ grown
    BY <1>0, <1>3, PlacesStep
  <2>2. \A i : Ahead(i)' = Ahead(i) /\ Repeats(i)' = Repeats(i)
    BY <1>3, PlacesStep
  <2>3. \A i : Among(i, LI!Bottom(page))' = Among(i, LI!Bottom(page))
    BY <1>0, <2>2, Zenon DEF Among
  <2> QED
    BY <1>0, <2>1, <2>2, <2>3 DEF ShownInv
<1> QED
  BY <1>1, <1>2, <1>3 DEF WatchedInv, ShownInv

LEMMA PlacesSame ==
  ASSUME ListTyped, UNCHANGED <<listing, listRows, links, status>>
  PROVE  /\ LI!ListRows' = LI!ListRows /\ (LI!Total' <=> LI!Total)
         /\ LI!ListedIn(LI!ListRows)' = LI!ListedIn(LI!ListRows)
         /\ \A i : Ahead(i)' = Ahead(i) /\ Repeats(i)' = Repeats(i)
<1>1. \A i : LI!Passes(i)' <=> LI!Passes(i)
  BY PassesSame
<1>2. LI!ListRows' = LI!ListRows
  <2>1. {i \in listRows : LI!Passes(i)}' = {i \in listRows : LI!Passes(i)}
    BY <1>1
  <2>2. \A i : LI!Match(i)' = LI!Match(i)
    BY DEF LI!Match
  <2> DEFINE passing == {i \in listRows : LI!Passes(i)}
  <2>3. {i \in passing : LI!Match(i) # {}}' = {i \in passing : LI!Match(i) # {}}
    BY <2>1, <2>2
  <2>4. {LI!Match(i) : i \in passing}' = {LI!Match(i) : i \in passing}
    BY <2>1, <2>2
  <2> QED
    BY <2>1, <2>3, <2>4, Zenon DEF LI!ListRows, LI!Distinct
<1>3. \A i, j : LI!Precedes(i, j)' <=> LI!Precedes(i, j)
  BY PrecedesSame
<1>4. LI!ListedIn(LI!ListRows)' = LI!ListedIn(LI!ListRows)
  BY <1>2 DEF LI!ListedIn
<1>5. \A i : RowsBefore(i)' = RowsBefore(i) /\ RowsOf(i)' = RowsOf(i)
  BY <1>2, <1>3 DEF RowsBefore, RowsOf
<1>6. LI!Total' <=> LI!Total
  BY <1>3, <1>4 DEF LI!Total
<1> QED
  BY <1>2, <1>4, <1>5, <1>6 DEF Ahead, Repeats

LEMMA ListCountStep ==
  ASSUME ListInv, LI!ReadCount
  PROVE  (PagesInv /\ WatchedInv /\ ShownInv)'
<1> USE DEF ListInv
<1>0. /\ listAt = "count" /\ listAt' \in {"slice", "refused"}
      /\ UNCHANGED <<listing, listRows, links, status, page, shown>>
      /\ watch' = (IF page = 1 THEN LI!ListedIn(LI!ListRows) ELSE watch)
      /\ moved' = (page > 1 /\ moved) /\ grown' = (page > 1 /\ grown)
      /\ late' = FALSE
      /\ count' = Cardinality(LI!ListRows)
      /\ listAt' = "slice" /\ page > 1 => ~ LI!Bottom(page) >= count'
  BY ListsCardinality DEF LI!ReadCount
<1>1. /\ LI!ListRows' = LI!ListRows /\ (LI!Total' <=> LI!Total)
      /\ LI!ListedIn(LI!ListRows)' = LI!ListedIn(LI!ListRows)
      /\ \A i : Ahead(i)' = Ahead(i) /\ Repeats(i)' = Repeats(i)
      /\ LI!Bottom(page)' = LI!Bottom(page)
  BY <1>0, PlacesSame DEF LI!Bottom
<1>2. page \in Nat /\ page # 0 /\ count' \in Nat
  BY <1>0, ListRowsFinite, FS_CardinalityType DEF ListTyped
<1>3. LI!Bottom(page) \in Nat /\ (page = 1 => LI!Bottom(page) = 0)
  BY PagesBetween
<1>4. \A i : Ahead(i) \in Nat
  BY PlacesTyped
<1>5. Walking /\ (page = 1 => \A i \in Item : shown[i] = 0)
  BY <1>0 DEF PagesInv, Walking
<1>6. PagesInv'
  <2>1. LI!Bottom(page) <= count' \/ listAt' = "refused"
    BY <1>0, <1>2, <1>3
  <2> QED
    BY <1>0, <1>1, <1>5, <2>1 DEF PagesInv
<1>7. ASSUME LI!Total', ~ moved'
      PROVE  /\ watch' \subseteq LI!ListedIn(LI!ListRows)'
             /\ \A i \in watch' : shown'[i] = 0 => LI!Bottom(page)' <= Ahead(i)'
  <2>1. CASE page = 1
    BY <1>0, <1>1, <1>3, <1>4, <2>1
  <2>2. CASE page > 1
    <3>0. page # 1
      BY <1>2, <2>2
    <3>1. watch' = watch /\ ~ moved
      BY <1>0, <1>7, <2>2, <3>0, Zenon
    <3> QED
      BY <1>0, <1>1, <1>5, <1>7, <3>1 DEF WatchedInv
  <2> QED
    BY <1>2, <2>1, <2>2
<1>8. ASSUME LI!Total', ~ moved', ~ grown', NEW i \in Item
      PROVE  shown'[i] = Among(i, LI!Bottom(page))'
  <2>1. Among(i, LI!Bottom(page))' = Among(i, LI!Bottom(page))
    BY <1>1, Zenon DEF Among
  <2>2. CASE page = 1
    BY <1>0, <1>3, <1>4, <1>5, <2>1, <2>2 DEF Among
  <2>3. CASE page > 1
    BY <1>0, <1>1, <1>5, <1>8, <2>1, <2>3 DEF ShownInv
  <2> QED
    BY <1>2, <2>2, <2>3
<1> QED
  BY <1>0, <1>6, <1>7, <1>8 DEF WatchedInv, ShownInv

LEMMA ListSliceStep ==
  ASSUME ListInv, LI!ReadSlice
  PROVE  (PagesInv /\ WatchedInv /\ ShownInv)'
<1> USE DEF ListInv
<1> DEFINE low == LI!Bottom(page)
           high == LI!Top(page, count)
           size == Cardinality(LI!ListRows)
<1>0. /\ listAt = "slice" /\ page' = page + 1
      /\ listAt' = (IF high < count THEN "count" ELSE "done")
      /\ UNCHANGED <<listing, listRows, links, status, count, watch, moved, grown, late>>
  BY DEF LI!ReadSlice, LI!HasNext
<1>1. /\ LI!ListRows' = LI!ListRows /\ (LI!Total' <=> LI!Total)
      /\ LI!ListedIn(LI!ListRows)' = LI!ListedIn(LI!ListRows)
      /\ \A i : Ahead(i)' = Ahead(i) /\ Repeats(i)' = Repeats(i)
  BY <1>0, PlacesSame
<1>2. /\ low \in Nat /\ count \in Nat /\ PageSize \in Nat /\ size \in Nat
      /\ low <= count
      /\ ~ moved /\ ~ late => count = size
      /\ LI!Bottom(page)' = low + PageSize
  <2>1. LI!Bottom(page)' = LI!Bottom(page + 1)
    BY <1>0 DEF LI!Bottom
  <2> QED
    BY <1>0, <2>1, PagesBetween, ReadsAssumption, ListRowsFinite, FS_CardinalityType
    DEF ListTyped, PagesInv
<1>3. /\ high \in Nat /\ low <= high /\ high <= count
      /\ high < count => high = low + PageSize
  BY <1>2 DEF LI!Top
<1>4. \A i : /\ Ahead(i) \in Nat /\ Repeats(i) \in Nat
             /\ Repeats(i) = 0 <=> i \notin LI!ListedIn(LI!ListRows)
  BY PlacesTyped
<1>5. Walking /\ page + 1 # 1
  BY <1>0 DEF ListTyped, Walking
<1>6. PICK s \in LI!Sorted(LI!ListRows) :
        shown' = [i \in Item |->
          shown[i] + LI!Cardinality({n \in LI!Slice(s, page, count) : s[n][1] = i})]
  BY DEF LI!ReadSlice
<1>7. ASSUME LI!Total, NEW i \in Item
      PROVE  /\ shown'[i] = shown[i] + (Among(i, high) - Among(i, low))
             /\ Ahead(i) + Repeats(i) <= size
             /\ shown[i] \in Nat
  <2>1. LI!Slice(s, page, count) = {m \in DOMAIN s : low < m /\ m <= high}
    BY DEF LI!Slice
  <2>2. Cardinality({n \in {m \in DOMAIN s : low < m /\ m <= high} : s[n][1] = i})
          = Among(i, high) - Among(i, low)
    BY <1>2, <1>3, <1>7, SliceShows
  <2>3. shown'[i] = shown[i] + Cardinality({n \in LI!Slice(s, page, count) : s[n][1] = i})
    BY <1>6, ListsCardinality
  <2>4. Ahead(i) + Repeats(i) <= size /\ shown[i] \in Nat
    BY <1>7, SortedPlaces DEF ListTyped
  <2> QED
    BY <2>1, <2>2, <2>3, <2>4, Zenon
<1>8. PagesInv'
  BY <1>0, <1>5 DEF PagesInv
<1> HIDE DEF low, high, size
<1>9. ASSUME LI!Total, ~ moved, NEW i \in watch
      PROVE  /\ i \in LI!ListedIn(LI!ListRows)
             /\ listAt' = "count" /\ shown'[i] = 0 => LI!Bottom(page)' <= Ahead(i)
             /\ listAt' = "done" /\ ~ late => shown'[i] > 0
  <2>1. /\ i \in Item /\ i \in LI!ListedIn(LI!ListRows)
        /\ shown[i] = 0 => low <= Ahead(i)
    BY <1>5, <1>9 DEF WatchedInv, ListTyped, low
  <2> DEFINE before == Ahead(i)
             many == Repeats(i)
             was == shown[i]
             is == shown'[i]
  <2>2. before \in Nat /\ many \in Nat /\ many > 0
    BY <1>4, <2>1
  <2>3. was \in Nat /\ before + many <= size
    BY <1>7, <1>9, <2>1
  <2>4. is = was +
          ((IF high <= before THEN 0 ELSE IF high >= before + many THEN many ELSE high - before)
           - (IF low <= before THEN 0 ELSE IF low >= before + many THEN many ELSE low - before))
    BY <1>7, <1>9, <2>1 DEF Among
  <2>5. was = 0 => low <= before
    BY <2>1
  <2> HIDE DEF before, many, was, is
  <2>6. is > 0 \/ (is = 0 /\ high <= before)
    BY <1>2, <1>3, <2>2, <2>3, <2>4, <2>5
  <2>7. ASSUME ~ high < count, ~ late PROVE ~ high <= before
    BY <1>2, <1>3, <1>9, <2>2, <2>3, <2>7
  <2>8. high < count => LI!Bottom(page)' = high
    BY <1>2, <1>3
  <2> QED
    BY <1>0, <2>1, <2>6, <2>7, <2>8 DEF before, is
<1>10. ASSUME LI!Total, ~ moved, ~ grown, NEW i \in Item
       PROVE  /\ listAt' = "count" => shown'[i] = Among(i, LI!Bottom(page)')
              /\ listAt' = "done" => shown'[i] = Repeats(i)
  <2>1. shown[i] = Among(i, low)
    BY <1>5, <1>10 DEF ShownInv, low
  <2>2. Among(i, low) \in Int /\ Among(i, high) \in Int
    BY <1>2, <1>3, <1>4 DEF Among
  <2>3. shown'[i] = Among(i, high)
    BY <1>7, <1>10, <2>1, <2>2
  <2>4. high < count => LI!Bottom(page)' = high
    BY <1>2, <1>3
  <2>5. ASSUME ~ high < count PROVE Among(i, high) = Repeats(i)
    <3>1. ~ late /\ Ahead(i) + Repeats(i) <= size
      BY <1>7, <1>10 DEF PagesInv
    <3>2. high = size
      BY <1>2, <1>3, <1>10, <2>5, <3>1
    <3> QED
      BY <1>2, <1>4, <3>1, <3>2 DEF Among
  <2> QED
    BY <1>0, <2>3, <2>4, <2>5
<1>11. WatchedInv'
  BY <1>0, <1>1, <1>9 DEF WatchedInv, Walking
<1>12. ShownInv'
  <2>1. \A i : Among(i, LI!Bottom(page))' = Among(i, LI!Bottom(page)')
    BY <1>1, Zenon DEF Among
  <2> QED
    BY <1>0, <1>1, <1>10, <2>1 DEF ShownInv, Walking
<1> QED
  BY <1>8, <1>11, <1>12

LEMMA ListInvStep == ListInv /\ [LI!Next]_(LI!vars) => ListInv'
<1> SUFFICES ASSUME ListInv, [LI!Next]_(LI!vars) PROVE ListInv'
  OBVIOUS
<1>1. ListTyped'
  BY ListTypedStep DEF ListInv
<1>2. CASE ListWriters
  BY <1>1, <1>2, ListWriteEffect, ListWriteStep DEF ListInv
<1>3. CASE LI!ReadCount
  BY <1>1, <1>3, ListCountStep DEF ListInv
<1>4. CASE LI!ReadSlice
  BY <1>1, <1>4, ListSliceStep DEF ListInv
<1>5. CASE UNCHANGED LI!vars
  <2>1. UNCHANGED <<listing, listRows, links, status, listAt, page, count, watch, shown, moved, grown, late>>
    BY <1>5 DEF LI!vars
  <2>2. /\ LI!ListRows' = LI!ListRows /\ (LI!Total' <=> LI!Total)
        /\ LI!ListedIn(LI!ListRows)' = LI!ListedIn(LI!ListRows)
        /\ \A i : Ahead(i)' = Ahead(i) /\ Repeats(i)' = Repeats(i)
        /\ LI!Bottom(page)' = LI!Bottom(page)
    BY <2>1, PlacesSame DEF ListInv, LI!Bottom
  <2>3. \A i : Among(i, LI!Bottom(page))' = Among(i, LI!Bottom(page))
    BY <2>2, Zenon DEF Among
  <2>4. PagesInv' /\ WatchedInv'
    BY <2>1, <2>2 DEF ListInv, PagesInv, WatchedInv, Walking
  <2>5. ShownInv'
    BY <2>1, <2>2, <2>3 DEF ListInv, ShownInv, Walking
  <2> QED
    BY <1>1, <2>4, <2>5 DEF ListInv
<1> QED
  BY <1>2, <1>3, <1>4, <1>5 DEF LI!Next, ListWriters

LEMMA ListInvInit == LI!Init => ListInv
<1> SUFFICES ASSUME LI!Init PROVE ListInv
  OBVIOUS
<1>1. ListTyped
  <2>1. status \in [Item -> {0, 1}] /\ shown \in [Item -> Nat]
    BY DEF LI!Init
  <2>2. /\ listing \in Listings /\ listRows = {} /\ links = {} /\ listAt = "count"
        /\ page = 1 /\ count = 0 /\ watch = {}
        /\ moved = FALSE /\ grown = FALSE /\ late = FALSE
    BY DEF LI!Init
  <2>3. page \in Nat \ {0} /\ count \in Nat
    BY <2>2
  <2> QED
    BY <2>1, <2>2, <2>3 DEF ListTyped
<1>2. LI!Bottom(page) = 0 /\ watch = {} /\ listAt = "count" /\ page = 1 /\ late = FALSE
      /\ \A i \in Item : shown[i] = 0
  BY <1>1, PagesBetween DEF LI!Init
<1>3. \A i : Ahead(i) \in Nat /\ Among(i, 0) = 0
  BY <1>1, PlacesTyped DEF Among
<1> QED
  BY <1>1, <1>2, <1>3 DEF ListInv, PagesInv, WatchedInv, ShownInv

\* A walk that ended showed what was in the list when it began.
LEMMA WalkCompletes == ListInv => LI!WalkIsComplete
  BY DEF ListInv, WatchedInv, LI!WalkIsComplete

\* The rows of an asset are those the request asks for: one, or one for each match.
LEMMA RowsAreAsked ==
  ASSUME ListTyped, LI!NoRepeat, NEW i \in Item
  PROVE  /\ Repeats(i) > 0 <=> i \in listRows /\ LI!Asked(i)
         /\ Repeats(i) > 1 =>
              listing.view \in {"functions", "managers"} /\ Repeats(i) = Cardinality(LI!Match(i))
<1>1. LI!Passes(i) /\ (listing.asked # {} => LI!Match(i) # {}) <=> LI!Asked(i)
  <2>1. LI!MetadataFilter(i) <=>
          (LI!WellFormed => \A n \in DOMAIN listing.metadata : LI!Holds(listing.metadata[n], i))
    BY Zenon DEF LI!NoRepeat, LI!MetadataFilter
  <2> QED
    BY <2>1 DEF LI!Passes, LI!Asked
<1>2. Repeats(i) \in Nat /\ (Repeats(i) = 0 <=> RowsOf(i) = {})
  BY PlacesTyped, FS_EmptySet DEF Repeats
<1>3. CASE listing.asked = {} \/ LI!Distinct(listing.view)
  <2>1. RowsOf(i) = IF i \in listRows /\ LI!Asked(i) THEN {<<i, NoVia>>} ELSE {}
    BY <1>1, <1>3 DEF RowsOf, LI!ListRows
  <2>2. Cardinality({<<i, NoVia>>}) = 1
    BY FS_Singleton
  <2>3. Cardinality({}) = 0
    BY FS_EmptySet
  <2> QED
    BY <2>1, <2>2, <2>3 DEF Repeats
<1>4. CASE listing.asked # {} /\ ~ LI!Distinct(listing.view)
  <2>1. RowsOf(i) = IF i \in listRows /\ LI!Passes(i) THEN LI!Match(i) ELSE {}
    <3>1. \A j : \A r \in LI!Match(j) : r[1] = j
      BY DEF LI!Match
    <3>2. LI!ListRows = UNION {LI!Match(j) : j \in {k \in listRows : LI!Passes(k)}}
      BY <1>4 DEF LI!ListRows
    <3> QED
      BY <3>1, <3>2 DEF RowsOf
  <2>2. listing.view \in {"functions", "managers"}
    BY <1>4, ListsAssumption DEF ListTyped, LI!Distinct
  <2>3. Cardinality({}) = 0
    BY FS_EmptySet
  <2>4. Repeats(i) > 0 <=> i \in listRows /\ LI!Asked(i)
    BY <1>1, <1>2, <1>4, <2>1
  <2>5. Repeats(i) > 1 => Repeats(i) = Cardinality(LI!Match(i))
    BY <1>2, <2>1, <2>3 DEF Repeats
  <2> QED
    BY <2>2, <2>4, <2>5
<1> QED
  BY <1>3, <1>4

LEMMA PagesAreKept == ListInv => LI!PagesAreTheList
<1> SUFFICES ASSUME ListInv, listAt = "done", ~ moved, ~ grown, LI!Total, LI!NoRepeat, NEW i \in Item
             PROVE  /\ shown[i] > 0 <=> i \in listRows /\ LI!Asked(i)
                    /\ shown[i] > 1 => /\ listing.view \in {"functions", "managers"}
                                       /\ shown[i] = LI!Cardinality(LI!Match(i))
  BY DEF LI!PagesAreTheList
<1>1. shown[i] = Repeats(i)
  BY DEF ListInv, ShownInv
<1> QED
  BY <1>1, RowsAreAsked, ListsCardinality DEF ListInv

\* Whoever follows the pages of a list to the last one sees what was in the list when it
\* began; and the pages of a list that nobody changes are what the request asks for, each
\* asset once, with the exceptions of the two properties (filters_utils.py,
\* libs/pagination.py, the filter sets of the views).
THEOREM ListsAreFollowed == LI!Spec => []ListsAreWalked
<1>1. ListInv => ListsAreWalked
  BY WalkCompletes, PagesAreKept DEF ListsAreWalked
<1> QED
  BY ListInvInit, ListInvStep, <1>1, PTL DEF LI!Spec

=============================================================================
