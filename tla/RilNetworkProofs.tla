-------------------------- MODULE RilNetworkProofs --------------------------
(***************************************************************************)
(* Proofs about network selection and search, for every set of networks    *)
(* and modes and every length of a report: what ipc_network_search_cnf     *)
(* builds entry by entry is the best entry of each network, a token that   *)
(* waits has its answer to come, and both settings are kept.               *)
(***************************************************************************)
EXTENDS RilNetwork, WellFoundedInduction, TLAPS

-----------------------------------------------------------------------------
(* The list of networks.                                                   *)

(* A set of numbers from 0 on that holds one has a least one.              *)
LEMMA LeastExists ==
  ASSUME NEW S, S \subseteq Nat, S # {}
  PROVE  \E x \in S : \A y \in S : x <= y
<1> DEFINE R == OpToRel(<, Nat)
<1>1. PICK x \in S : \A y \in S : ~ (<<y, x>> \in R)
  <2> HIDE DEF R
  <2>1. IsWellFoundedOn(R, Nat)
    BY NatLessThanWellFounded DEF R
  <2> QED
    BY <2>1, WFMin
<1>2. ASSUME NEW y \in S PROVE x <= y
  <2>1. x \in Nat /\ y \in Nat
    OBVIOUS
  <2>2. CASE y < x
    <3>1. <<y, x>> \in Nat \X Nat /\ <<y, x>>[1] < <<y, x>>[2]
      BY <2>1, <2>2
    <3> QED
      BY <1>1, <3>1 DEF OpToRel
  <2> QED
    BY <2>1, <2>2
<1> QED
  BY <1>2

(* Numbers that are bounded have a greatest one among them.                *)
LEMMA MaxExists ==
  ASSUME NEW S, NEW b \in Nat, S \subseteq 0 .. b, S # {}
  PROVE  Max(S) \in S /\ \A y \in S : y <= Max(S)
<1> DEFINE U == {u \in Nat : \A y \in S : y <= u}
<1>1. b \in U
  OBVIOUS
<1>2. PICK u \in U : \A v \in U : u <= v
  BY <1>1, LeastExists
<1>3. u \in S
  <2>1. SUFFICES ASSUME u \notin S PROVE FALSE
    OBVIOUS
  <2>2. PICK y \in S : TRUE
    OBVIOUS
  <2>3. y \in Nat /\ y <= u /\ y # u
    BY <2>1
  <2>4. u - 1 \in U
    BY <2>1, <2>3
  <2> QED
    BY <1>2, <2>4
<1>4. \A y \in S : u >= y
  BY <1>3
<1> QED
  BY <1>3, <1>4 DEF Max

(* The types a network has in the first n entries, and the list of the     *)
(* highest of each.                                                        *)
Types(report, n, p) == {0} \cup {report[i][2] : i \in {j \in 1 .. n : report[j][1] = p}}
BestOf(report, n) == [p \in Plmn |-> Max(Types(report, n, p))]

(* What the loop of ipc_network_search_cnf does with an entry.             *)
ListEntry(list, entry) ==
  IF list[entry[1]] < entry[2] THEN [list EXCEPT ![entry[1]] = entry[2]] ELSE list

LEMMA TypesBounded ==
  ASSUME NEW report \in Seq(Entry), NEW n \in 0 .. Len(report), NEW p \in Plmn
  PROVE  /\ Types(report, n, p) \subseteq 0 .. MaxType
         /\ Max(Types(report, n, p)) \in Types(report, n, p)
         /\ \A y \in Types(report, n, p) : y <= Max(Types(report, n, p))
<1>1. \A i \in 1 .. n : report[i][2] \in 1 .. MaxType
  <2>1. \A i \in 1 .. n : report[i] \in Entry
    OBVIOUS
  <2> QED
    BY <2>1 DEF Entry
<1>2. Types(report, n, p) \subseteq 0 .. MaxType
  BY <1>1, NetworkAssumption DEF Types
<1>3. Types(report, n, p) # {}
  BY DEF Types
<1> QED
  BY <1>2, <1>3, MaxExists, NetworkAssumption

LEMMA MaxIs ==
  ASSUME NEW S \in SUBSET Nat, NEW x \in S, \A y \in S : y <= x
  PROVE  Max(S) = x
<1>1. \A y \in S : x >= y
  OBVIOUS
<1>2. \A z \in S : (\A y \in S : z >= y) => z = x
  OBVIOUS
<1> QED
  BY <1>1, <1>2 DEF Max

(* One entry more: the highest type of its network is the higher of both.  *)
LEMMA BestStep ==
  ASSUME NEW report \in Seq(Entry), NEW n \in 1 .. Len(report)
  PROVE  BestOf(report, n) = ListEntry(BestOf(report, n - 1), report[n])
<1> DEFINE q == report[n][1]
           t == report[n][2]
<1>1. q \in Plmn /\ t \in 1 .. MaxType /\ n - 1 \in 0 .. Len(report)
  <2>1. report[n] \in Entry
    OBVIOUS
  <2> QED
    BY <2>1 DEF Entry
<1>2. 1 .. n = 1 .. (n - 1) \cup {n}
  OBVIOUS
<1>3. Types(report, n, q) = Types(report, n - 1, q) \cup {t}
  BY <1>2 DEF Types
<1>4. \A p \in Plmn : p # q => Types(report, n, p) = Types(report, n - 1, p)
  BY <1>2 DEF Types
<1>5. Max(Types(report, n, q)) =
        IF Max(Types(report, n - 1, q)) < t THEN t ELSE Max(Types(report, n - 1, q))
  <2> DEFINE S == Types(report, n - 1, q)
             m == Max(S)
  <2>1. S \subseteq 0 .. MaxType /\ m \in S /\ \A y \in S : y <= m
    BY <1>1, TypesBounded
  <2> HIDE DEF S, m
  <2>2. S \cup {t} \in SUBSET Nat /\ m \in Nat /\ t \in Nat /\ \A y \in S : y \in Nat
    <3>1. 0 .. MaxType \subseteq Nat /\ 1 .. MaxType \subseteq Nat
      BY NetworkAssumption
    <3>2. S \subseteq Nat /\ t \in Nat
      BY <1>1, <2>1, <3>1
    <3> QED
      BY <2>1, <3>2
  <2>3. CASE m < t
    BY <2>1, <2>2, <2>3, MaxIs, <1>3 DEF S, m
  <2>4. CASE ~(m < t)
    BY <2>1, <2>2, <2>4, MaxIs, <1>3 DEF S, m
  <2> QED
    BY <2>3, <2>4 DEF S, m
<1>6. BestOf(report, n) =
        IF BestOf(report, n - 1)[q] < t
        THEN [BestOf(report, n - 1) EXCEPT ![q] = t] ELSE BestOf(report, n - 1)
  BY <1>1, <1>4, <1>5 DEF BestOf
<1> QED
  BY <1>6 DEF ListEntry

(* What the definition of Listed asks of the lists after each entry.       *)
Builds(list, report) ==
  list = [n \in 0 .. Len(report) |->
            IF n = 0 THEN NoNets ELSE ListEntry(list[n - 1], report[n])]

(* There are such lists, and no others than the best so far: the first     *)
(* that differed would follow from one that does not.                      *)
LEMMA BestBuilds ==
  ASSUME NEW report \in Seq(Entry)
  PROVE  Builds([n \in 0 .. Len(report) |-> BestOf(report, n)], report)
<1> DEFINE B == [n \in 0 .. Len(report) |-> BestOf(report, n)]
<1>1. Len(report) \in Nat
  OBVIOUS
<1>2. BestOf(report, 0) = NoNets
  <2>1. ASSUME NEW p \in Plmn PROVE Max(Types(report, 0, p)) = 0
    <3>1. Types(report, 0, p) = {0}
      BY DEF Types
    <3> QED
      BY <3>1, MaxIs
  <2> QED
    BY <2>1 DEF BestOf, NoNets
<1>3. ASSUME NEW n \in 0 .. Len(report), n # 0
      PROVE  B[n] = ListEntry(B[n - 1], report[n])
  <2>1. n \in 1 .. Len(report) /\ n - 1 \in 0 .. Len(report)
    BY <1>1, <1>3
  <2>2. BestOf(report, n) = ListEntry(BestOf(report, n - 1), report[n])
    BY <2>1, BestStep
  <2> QED
    BY <2>1, <2>2
<1>4. ASSUME NEW n \in 0 .. Len(report)
      PROVE  B[n] = IF n = 0 THEN NoNets ELSE ListEntry(B[n - 1], report[n])
  BY <1>2, <1>3
<1> HIDE DEF B
<1>5. [n \in 0 .. Len(report) |-> B[n]] = B
  BY DEF B
<1> QED
  BY <1>4, <1>5 DEF Builds, B

LEMMA BuildsBest ==
  ASSUME NEW report \in Seq(Entry), NEW list, Builds(list, report)
  PROVE  \A n \in 0 .. Len(report) : list[n] = BestOf(report, n)
<1> DEFINE B == [n \in 0 .. Len(report) |-> BestOf(report, n)]
           D == {n \in 0 .. Len(report) : list[n] # B[n]}
<1>1. Len(report) \in Nat
  OBVIOUS
<1>2. ASSUME NEW n \in 0 .. Len(report)
      PROVE  /\ list[n] = IF n = 0 THEN NoNets ELSE ListEntry(list[n - 1], report[n])
             /\ B[n] = IF n = 0 THEN NoNets ELSE ListEntry(B[n - 1], report[n])
  <2>1. Builds(B, report)
    BY BestBuilds
  <2> HIDE DEF B
  <2>2. list[n] = IF n = 0 THEN NoNets ELSE ListEntry(list[n - 1], report[n])
    BY Zenon DEF Builds
  <2>3. B[n] = IF n = 0 THEN NoNets ELSE ListEntry(B[n - 1], report[n])
    BY <2>1, Zenon DEF Builds
  <2> QED
    BY <2>2, <2>3
<1> HIDE DEF B
<1>3. D = {}
  <2>1. SUFFICES ASSUME D # {} PROVE FALSE
    OBVIOUS
  <2>2. PICK n \in D : \A m \in D : n <= m
    <3>1. D \subseteq Nat
      OBVIOUS
    <3> HIDE DEF D
    <3> QED
      BY <2>1, <3>1, LeastExists
  <2>3. n # 0
    BY <1>2
  <2>4. n - 1 \in 0 .. Len(report) /\ n - 1 \notin D
    BY <2>2, <2>3
  <2>5. list[n - 1] = B[n - 1]
    BY <2>4
  <2> QED
    BY <1>2, <2>3, <2>5
<1>4. \A n \in 0 .. Len(report) : B[n] = BestOf(report, n)
  BY DEF B
<1> QED
  BY <1>3, <1>4

LEMMA ListedBuilds ==
  ASSUME NEW report \in Seq(Entry)
  PROVE  \E list : Builds(list, report) /\ Listed(report) = list[Len(report)]
<1> DEFINE L == CHOOSE list : Builds(list, report)
<1>1. Builds(L, report)
  BY BestBuilds
<1>2. Listed(report) = L[Len(report)]
  BY DEF Listed, Builds, ListEntry
<1> QED
  BY <1>1, <1>2

LEMMA ReportSeq ==
  ASSUME NEW report \in Report
  PROVE  report \in Seq(Entry)
<1>1. PICK n \in 0 .. MaxEntries : report \in [1 .. n -> Entry]
  BY DEF Report
<1>2. n \in Nat
  BY <1>1, NetworkAssumption
<1> QED
  BY <1>1, <1>2

(* ipc_network_search_cnf: the list built entry by entry, each entry of a  *)
(* network replacing a listed one of a lower system type, holds the        *)
(* highest type of every network of the report, for every report.          *)
THEOREM NetworkListedBest ==
  ASSUME NEW report \in Report
  PROVE  Listed(report) = Best(report)
<1>1. report \in Seq(Entry) /\ Len(report) \in 0 .. Len(report)
  BY ReportSeq
<1>2. Listed(report) = BestOf(report, Len(report))
  BY <1>1, ListedBuilds, BuildsBest
<1>3. DOMAIN report = 1 .. Len(report)
  BY <1>1
<1>4. \A p \in Plmn :
        Types(report, Len(report), p) =
          {0} \cup {e[2] : e \in {report[i] : i \in {j \in DOMAIN report : report[j][1] = p}}}
  BY <1>3 DEF Types
<1> QED
  BY <1>2, <1>4 DEF Best, BestOf

LEMMA BestListing ==
  ASSUME NEW report \in Report
  PROVE  Best(report) \in Listing
<1>1. report \in Seq(Entry) /\ Len(report) \in 0 .. Len(report)
  BY ReportSeq
<1>2. Best(report) = BestOf(report, Len(report))
  BY <1>1, ListedBuilds, BuildsBest, NetworkListedBest
<1> QED
  BY <1>1, <1>2, TypesBounded DEF BestOf, Listing

-----------------------------------------------------------------------------
(* The invariant.  A selection token is the token of a search that waits   *)
(* too only after that search was answered, and the file holds the mode    *)
(* that was asked for last, or nothing after a write that was cut off.     *)
Apart == ~crossed /\ sel # NoToken /\ sel = qry => spent

FileKept == Loaded(file) = (cut \/ wanted)

NetInv == TypeOK /\ Awaited /\ Apart /\ ListFromReport /\ SettingsKept /\ FileKept

(* LastFor of any sequence of commands.                                    *)
LastIn(q, kind, t) ==
  \E i \in DOMAIN q :
    /\ q[i] = [kind |-> kind, token |-> t]
    /\ \A j \in DOMAIN q : q[j].kind = kind => j <= i

LEMMA LastAppend ==
  ASSUME NEW q \in Seq(Command), NEW kind \in {"search", "select"}, NEW t \in Token
  PROVE  LET c == [kind |-> kind, token |-> t]
         IN  /\ Append(q, c) \in Seq(Command)
             /\ LastIn(Append(q, c), kind, t)
             /\ \A k, u : k # kind /\ LastIn(q, k, u) => LastIn(Append(q, c), k, u)
<1> DEFINE c == [kind |-> kind, token |-> t]
           a == Append(q, c)
<1>1. c \in Command
  BY DEF Command
<1>2. /\ Len(q) \in Nat /\ DOMAIN q = 1 .. Len(q)
      /\ a \in Seq(Command) /\ DOMAIN a = 1 .. (Len(q) + 1)
      /\ a[Len(q) + 1] = c /\ \A i \in 1 .. Len(q) : a[i] = q[i]
  BY <1>1
<1>3. 1 .. (Len(q) + 1) = 1 .. Len(q) \cup {Len(q) + 1}
  BY <1>2
<1>4. c.kind = kind
  OBVIOUS
<1> HIDE DEF a
<1>5. LastIn(a, kind, t)
  BY <1>2 DEF LastIn
<1> HIDE DEF c
<1>6. ASSUME NEW k, NEW u, k # kind, LastIn(q, k, u)
      PROVE  LastIn(a, k, u)
  <2>1. PICK i \in 1 .. Len(q) :
          /\ q[i] = [kind |-> k, token |-> u]
          /\ \A j \in 1 .. Len(q) : q[j].kind = k => j <= i
    BY <1>2, <1>6 DEF LastIn
  <2>2. i \in DOMAIN a /\ a[i] = [kind |-> k, token |-> u]
    BY <1>2, <1>3, <2>1
  <2>3. \A j \in DOMAIN a : a[j].kind = k => j <= i
    BY <1>2, <1>3, <1>4, <1>6, <2>1
  <2> QED
    BY <2>2, <2>3 DEF LastIn
<1> QED
  BY <1>2, <1>5, <1>6 DEF a, c

LEMMA LastTail ==
  ASSUME NEW q \in Seq(Command), q # <<>>
  PROVE  /\ Tail(q) \in Seq(Command)
         /\ \A k, u : k # Head(q).kind /\ LastIn(q, k, u) => LastIn(Tail(q), k, u)
<1>1. /\ Head(q) = q[1] /\ Len(q) \in Nat /\ Len(q) >= 1 /\ DOMAIN q = 1 .. Len(q)
      /\ Tail(q) \in Seq(Command) /\ DOMAIN Tail(q) = 1 .. (Len(q) - 1)
      /\ \A i \in 1 .. (Len(q) - 1) : Tail(q)[i] = q[i + 1]
  OBVIOUS
<1>2. ASSUME NEW k, NEW u, k # Head(q).kind, LastIn(q, k, u)
      PROVE  LastIn(Tail(q), k, u)
  <2>1. PICK i \in 1 .. Len(q) :
          /\ q[i] = [kind |-> k, token |-> u]
          /\ \A j \in 1 .. Len(q) : q[j].kind = k => j <= i
    BY <1>1, <1>2 DEF LastIn
  <2>2. i # 1
    BY <1>1, <1>2, <2>1
  <2>3. i - 1 \in DOMAIN Tail(q) /\ Tail(q)[i - 1] = [kind |-> k, token |-> u]
    BY <1>1, <2>1, <2>2
  <2>4. ASSUME NEW j \in DOMAIN Tail(q), Tail(q)[j].kind = k
        PROVE  j <= i - 1
    <3>1. j + 1 \in 1 .. Len(q) /\ q[j + 1].kind = k
      BY <1>1, <2>4
    <3>2. j + 1 <= i
      BY <2>1, <3>1
    <3> QED
      BY <1>1, <3>2
  <2> QED
    BY <2>3, <2>4 DEF LastIn
<1> QED
  BY <1>1, <1>2

LEMMA NetworkInit == Init => NetInv
<1> SUFFICES ASSUME Init PROVE NetInv
  OBVIOUS
<1>1. cmds \in Seq(Command)
  BY DEF Init
<1>2. NoNets \in Listing
  BY NetworkAssumption DEF NoNets, Listing
<1>3. TypeOK
  BY <1>1, <1>2 DEF Init, RequestInit, TypeOK, RequestTypeOK, Power
<1>4. Awaited /\ Apart /\ ListFromReport
  BY DEF Init, Awaited, Apart, ListFromReport
<1>5. SettingsKept /\ FileKept
  BY DEF Init, SettingsKept, FileKept, Loaded
<1> QED
  BY <1>3, <1>4, <1>5 DEF NetInv

(* The facts the actions need of the types, and what the waiting tokens    *)
(* are, in terms of the commands.                                          *)
LEMMA NetworkFacts ==
  ASSUME NetInv
  PROVE  /\ sel \in Token \cup {NoToken} /\ qry \in Token \cup {NoToken}
         /\ spent \in BOOLEAN /\ crossed \in BOOLEAN /\ forgot \in BOOLEAN
         /\ pending \subseteq Token /\ stray \in BOOLEAN
         /\ cmds \in Seq(Command)
         /\ ~crossed /\ sel # NoToken => sel \in pending
         /\ ~crossed /\ qry # NoToken /\ ~spent => qry \in pending
         /\ ~forgot /\ sel # NoToken => LastIn(cmds, "select", sel)
         /\ ~forgot /\ qry # NoToken /\ ~spent => LastIn(cmds, "search", qry)
         /\ ~crossed /\ sel # NoToken /\ sel = qry => spent
<1>1. /\ sel \in Token \cup {NoToken} /\ qry \in Token \cup {NoToken}
      /\ spent \in BOOLEAN /\ crossed \in BOOLEAN /\ forgot \in BOOLEAN
      /\ pending \subseteq Token /\ stray \in BOOLEAN
      /\ cmds \in Seq(Command)
  BY DEF NetInv, TypeOK, RequestTypeOK
<1>2. /\ ~forgot /\ sel # NoToken => LastIn(cmds, "select", sel)
      /\ ~forgot /\ qry # NoToken /\ ~spent => LastIn(cmds, "search", qry)
  BY DEF NetInv, Awaited, LastFor, LastIn
<1> QED
  BY <1>1, <1>2 DEF NetInv, Awaited, Apart

LEMMA AwaitedNext ==
  ASSUME ~crossed' /\ sel' # NoToken => sel' \in pending',
         ~crossed' /\ qry' # NoToken /\ ~spent' => qry' \in pending',
         ~forgot' /\ sel' # NoToken => LastIn(cmds', "select", sel'),
         ~forgot' /\ qry' # NoToken /\ ~spent' => LastIn(cmds', "search", qry')
  PROVE  Awaited'
BY DEF Awaited, LastFor, LastIn

(* What a request of the framework does to the tokens: it replaces one of  *)
(* them and sends a command of that kind, or it leaves all of this alone.  *)
LEMMA RequestTokens ==
  ASSUME NetInv, NEW t \in Token, Idle(t), Request(t)
  PROVE  Awaited' /\ Apart' /\ cmds' \in Seq(Command)
<1>1. /\ sel \in Token \cup {NoToken} /\ qry \in Token \cup {NoToken}
      /\ pending \subseteq Token /\ cmds \in Seq(Command)
      /\ ~crossed /\ sel # NoToken => sel \in pending
      /\ ~crossed /\ qry # NoToken /\ ~spent => qry \in pending
      /\ ~forgot /\ sel # NoToken => LastIn(cmds, "select", sel)
      /\ ~forgot /\ qry # NoToken /\ ~spent => LastIn(cmds, "search", qry)
      /\ ~crossed /\ sel # NoToken /\ sel = qry => spent
  BY NetworkFacts
<1>2. t \in Token /\ t \notin pending /\ t # NoToken
  BY TokenAssumption DEF Idle
<1>3. CASE QueryAvailableNetworks(t)
  <2>1. /\ cmds' = Append(cmds, [kind |-> "search", token |-> t])
        /\ qry' = t /\ spent' = FALSE /\ pending' = pending \cup {t}
        /\ UNCHANGED <<sel, crossed, forgot>>
    BY <1>3 DEF QueryAvailableNetworks, Send, Answer
  <2>2. /\ cmds' \in Seq(Command) /\ LastIn(cmds', "search", t)
        /\ \A u : LastIn(cmds, "select", u) => LastIn(cmds', "select", u)
    BY <1>1, <2>1, LastAppend
  <2>3. Awaited'
    BY <1>1, <2>1, <2>2, AwaitedNext
  <2>4. Apart'
    BY <1>1, <1>2, <2>1 DEF Apart
  <2> QED
    BY <2>2, <2>3, <2>4
<1>4. CASE \E a \in BOOLEAN : Select(t, a)
  <2>1. /\ cmds' = Append(cmds, [kind |-> "select", token |-> t])
        /\ sel' = t /\ pending' = pending \cup {t}
        /\ UNCHANGED <<qry, spent, crossed, forgot>>
    BY <1>4 DEF Select, Send, Answer
  <2>2. /\ cmds' \in Seq(Command) /\ LastIn(cmds', "select", t)
        /\ \A u : LastIn(cmds, "search", u) => LastIn(cmds', "search", u)
    BY <1>1, <2>1, LastAppend
  <2>3. Awaited'
    BY <1>1, <2>1, <2>2, AwaitedNext
  <2>4. Apart'
    BY <1>1, <1>2, <2>1 DEF Apart
  <2> QED
    BY <2>2, <2>3, <2>4
<1>5. CASE UNCHANGED <<sel, qry, spent, crossed, cmds, forgot>> /\ Answer({t}, {t})
  <2>1. pending' = pending
    BY <1>2, <1>5 DEF Answer
  <2>2. Awaited'
    BY <1>1, <1>5, <2>1, AwaitedNext
  <2>3. Apart'
    BY <1>1, <1>5 DEF Apart
  <2> QED
    BY <1>1, <1>5, <2>2, <2>3
<1> QED
  BY <1>3, <1>4, <1>5
     DEF Request, SetSelectionAutomatic, SetSelectionManual, Reply,
         SetPreferredNetworkType, PowerOn, PowerOff

(* A confirmation takes the first command away, which is not the last of   *)
(* the other kind; the token it completes is not one that waits for it.    *)
LEMMA ConfirmTokens ==
  ASSUME NetInv, Confirm
  PROVE  Awaited' /\ Apart' /\ cmds' \in Seq(Command)
<1>1. /\ sel \in Token \cup {NoToken} /\ qry \in Token \cup {NoToken}
      /\ spent \in BOOLEAN /\ crossed \in BOOLEAN
      /\ pending \subseteq Token /\ cmds \in Seq(Command)
      /\ ~crossed /\ sel # NoToken => sel \in pending
      /\ ~crossed /\ qry # NoToken /\ ~spent => qry \in pending
      /\ ~forgot /\ sel # NoToken => LastIn(cmds, "select", sel)
      /\ ~forgot /\ qry # NoToken /\ ~spent => LastIn(cmds, "search", qry)
      /\ ~crossed /\ sel # NoToken /\ sel = qry => spent
  BY NetworkFacts
<1>2. CASE \E report \in Report : SearchCnf(report)
  <2>1. /\ cmds # <<>> /\ Head(cmds).kind = "search" /\ cmds' = Tail(cmds)
        /\ pending' = pending \ {qry} /\ spent' = TRUE
        /\ crossed' = (crossed \/ (spent /\ qry \in pending))
        /\ UNCHANGED <<sel, qry, forgot>>
    BY <1>2 DEF SearchCnf, Answer
  <2>2. /\ cmds' \in Seq(Command)
        /\ \A u : LastIn(cmds, "select", u) => LastIn(cmds', "select", u)
    BY <1>1, <2>1, LastTail
  <2>3. ~crossed' /\ sel' # NoToken => sel' \in pending'
    BY <1>1, <2>1
  <2>4. Awaited'
    BY <1>1, <2>1, <2>2, <2>3, AwaitedNext
  <2>5. Apart'
    BY <2>1 DEF Apart
  <2> QED
    BY <2>2, <2>4, <2>5
<1>3. CASE \E full \in BOOLEAN : SelectCnf(full)
  <2>1. /\ cmds # <<>> /\ Head(cmds).kind = "select" /\ cmds' = Tail(cmds)
        /\ pending' = pending \ {sel} /\ sel' = NoToken
        /\ UNCHANGED <<qry, spent, crossed, forgot>>
    BY <1>3 DEF SelectCnf, Answer
  <2>2. /\ cmds' \in Seq(Command)
        /\ \A u : LastIn(cmds, "search", u) => LastIn(cmds', "search", u)
    BY <1>1, <2>1, LastTail
  <2>3. ~crossed' /\ qry' # NoToken /\ ~spent' => qry' \in pending'
    BY <1>1, <2>1, TokenAssumption
  <2>4. Awaited'
    BY <1>1, <2>1, <2>2, <2>3, AwaitedNext
  <2>5. Apart'
    BY <2>1 DEF Apart
  <2> QED
    BY <2>2, <2>4, <2>5
<1> QED
  BY <1>2, <1>3 DEF Confirm

LEMMA NetworkSelectTokens ==
  ASSUME NetInv, NEW full \in BOOLEAN, NetworkSelect(full)
  PROVE  Awaited' /\ Apart'
<1>1. /\ sel \in Token \cup {NoToken} /\ qry \in Token \cup {NoToken}
      /\ ~crossed /\ sel # NoToken => sel \in pending
      /\ ~crossed /\ qry # NoToken /\ ~spent => qry \in pending
      /\ ~forgot /\ sel # NoToken => LastIn(cmds, "select", sel)
      /\ ~forgot /\ qry # NoToken /\ ~spent => LastIn(cmds, "search", qry)
      /\ ~crossed /\ sel # NoToken /\ sel = qry => spent
  BY NetworkFacts
<1>2. /\ UNCHANGED <<qry, spent, crossed, cmds, forgot>>
      /\ \/ UNCHANGED <<sel, pending>>
         \/ sel # NoToken /\ sel' = NoToken /\ pending' = pending \ {sel}
  BY DEF NetworkSelect, Answer
<1>3. ~crossed' /\ qry' # NoToken /\ ~spent' => qry' \in pending'
  BY <1>1, <1>2
<1>4. ~crossed' /\ sel' # NoToken => sel' \in pending'
  BY <1>1, <1>2
<1>5. Awaited'
  BY <1>1, <1>2, <1>3, <1>4, AwaitedNext
<1>6. Apart'
  BY <1>1, <1>2 DEF Apart
<1> QED
  BY <1>5, <1>6

(* A modem that starts again without a command to forget owes no answer.   *)
LEMMA RestartTokens ==
  ASSUME NetInv, CpSystemStart \/ Restart \/ RestartInSave
  PROVE  Awaited' /\ Apart' /\ cmds' \in Seq(Command)
<1>1. /\ cmds \in Seq(Command)
      /\ ~crossed /\ sel # NoToken => sel \in pending
      /\ ~crossed /\ qry # NoToken /\ ~spent => qry \in pending
      /\ ~forgot /\ sel # NoToken => LastIn(cmds, "select", sel)
      /\ ~forgot /\ qry # NoToken /\ ~spent => LastIn(cmds, "search", qry)
      /\ ~crossed /\ sel # NoToken /\ sel = qry => spent
  BY NetworkFacts
<1>2. CASE CpSystemStart
  <2>1. /\ cmds' = <<>> /\ forgot' = (forgot \/ cmds # <<>>)
        /\ UNCHANGED <<sel, qry, spent, crossed, pending>>
    BY <1>2 DEF CpSystemStart, tokenVars
  <2>2. \A k, u : cmds = <<>> => ~LastIn(cmds, k, u)
    BY DEF LastIn
  <2>3. Awaited'
    BY <1>1, <2>1, <2>2, AwaitedNext
  <2>4. Apart'
    BY <1>1, <2>1 DEF Apart
  <2>5. cmds' \in Seq(Command)
    BY <2>1
  <2> QED
    BY <2>3, <2>4, <2>5
<1>3. CASE \E f \in {file, "empty"} : StartAgain(f)
  <2>1. /\ sel' = NoToken /\ qry' = NoToken
        /\ cmds' = [i \in DOMAIN cmds |-> [cmds[i] EXCEPT !.token = NoToken]]
    BY <1>3 DEF StartAgain
  <2>2. Awaited'
    BY <2>1, AwaitedNext
  <2>3. Apart'
    BY <2>1 DEF Apart
  <2>4. \A i \in DOMAIN cmds : [cmds[i] EXCEPT !.token = NoToken] \in Command
    <3>1. \A i \in DOMAIN cmds : cmds[i] \in Command
      BY <1>1
    <3> QED
      BY <3>1 DEF Command
  <2>5. Len(cmds) \in Nat /\ DOMAIN cmds = 1 .. Len(cmds)
    BY <1>1
  <2>6. cmds' \in Seq(Command)
    BY <2>1, <2>4, <2>5
  <2> QED
    BY <2>2, <2>3, <2>6
<1> QED
  BY <1>2, <1>3 DEF Restart, RestartInSave

(* The list is dropped or comes from the report that is remembered.        *)
LEMMA NetworkLists ==
  ASSUME NetInv, Next
  PROVE  ListFromReport' /\ nets' \in Listing /\ best' \in Listing
<1>1. nets \in Listing /\ best \in Listing /\ nets \in {NoNets, best}
  BY DEF NetInv, TypeOK, ListFromReport
<1>2. NoNets \in Listing
  BY NetworkAssumption DEF NoNets, Listing
<1>3. CASE \E report \in Report : SearchCnf(report)
  <2>1. PICK report \in Report : nets' = Listed(report) /\ best' = Best(report)
    BY <1>3 DEF SearchCnf
  <2>2. nets' = best' /\ best' \in Listing
    BY <2>1, NetworkListedBest, BestListing
  <2> QED
    BY <2>2 DEF ListFromReport
<1>4. CASE nets' \in {NoNets, nets} /\ best' = best
  BY <1>1, <1>2, <1>4 DEF ListFromReport
<1>5. CASE \E t \in Token : Request(t)
  BY <1>4, <1>5
     DEF Request, QueryAvailableNetworks, SetSelectionAutomatic, SetSelectionManual, Select,
         Reply, SetPreferredNetworkType, PowerOn, PowerOff, listVars
<1>6. CASE \/ \E full \in BOOLEAN : SelectCnf(full) \/ NetworkSelect(full)
           \/ CpSystemStart \/ Restart \/ RestartInSave
  BY <1>4, <1>6
     DEF SelectCnf, NetworkSelect, CpSystemStart, Restart, RestartInSave, StartAgain, listVars
<1> QED
  BY <1>3, <1>5, <1>6 DEF Next, Confirm

(* The modes: what is kept, what the modem has, what the file holds.       *)
ModesOK ==
  /\ auto \in BOOLEAN /\ wanted \in BOOLEAN /\ cut \in BOOLEAN
  /\ file \in {"auto", "manual", "empty"}
  /\ mode \in Mode \cup {"unset"} /\ modem \in Mode \cup {"unset"}
  /\ power \in Power

LEMMA NetworkModes ==
  ASSUME NetInv, Next
  PROVE  SettingsKept' /\ FileKept' /\ ModesOK'
<1>1. SettingsKept /\ FileKept /\ ModesOK
  BY DEF NetInv, TypeOK, ModesOK
<1>2. CASE UNCHANGED <<configVars, radioVars>>
  BY <1>1, <1>2 DEF configVars, radioVars, SettingsKept, FileKept, ModesOK
<1>3. ASSUME NEW t \in Token, Request(t)
      PROVE  SettingsKept' /\ FileKept' /\ ModesOK'
  <2>1. CASE \E a \in BOOLEAN : Select(t, a)
    <3>1. PICK a \in BOOLEAN : Select(t, a)
      BY <2>1
    <3>2. /\ auto' = a /\ wanted' = a /\ cut' = FALSE
          /\ file' = IF a THEN "auto" ELSE "manual"
          /\ mode' = mode /\ power' = power /\ modem' = modem
      BY <3>1 DEF Select, Save, radioVars
    <3>3. Loaded(file)' = a
      BY <3>2 DEF Loaded
    <3>4. SettingsKept' /\ FileKept'
      BY <1>1, <3>2, <3>3, Zenon DEF SettingsKept, FileKept
    <3>5. ModesOK'
      BY <1>1, <3>2 DEF ModesOK
    <3> QED
      BY <3>4, <3>5
  <2>2. CASE \E m \in Mode : SetPreferredNetworkType(t, m)
    BY <1>1, <2>2
       DEF SetPreferredNetworkType, configVars, SettingsKept, FileKept, ModesOK
  <2>3. CASE PowerOn(t) \/ PowerOff(t)
    BY <1>1, <2>3
       DEF PowerOn, PowerOff, configVars, SettingsKept, FileKept, ModesOK, Power
  <2>4. CASE QueryAvailableNetworks(t) \/ Reply(t)
    BY <1>2, <2>4 DEF QueryAvailableNetworks, Reply
  <2> QED
    BY <1>3, <2>1, <2>2, <2>3, <2>4 DEF Request, SetSelectionAutomatic, SetSelectionManual
<1>4. CASE Confirm \/ \E full \in BOOLEAN : NetworkSelect(full)
  BY <1>2, <1>4 DEF Confirm, SearchCnf, SelectCnf, NetworkSelect
<1>5. CASE CpSystemStart
  BY <1>1, <1>5 DEF CpSystemStart, configVars, SettingsKept, FileKept, ModesOK, Power
<1>6. CASE Restart \/ RestartInSave
  BY <1>1, <1>6
     DEF Restart, RestartInSave, StartAgain, SettingsKept, FileKept, Loaded, ModesOK, Power
<1> QED
  BY <1>3, <1>4, <1>5, <1>6 DEF Next

LEMMA NetworkTokenTypes ==
  ASSUME NetInv, Next
  PROVE  /\ {sel', qry'} \subseteq Token \cup {NoToken}
         /\ spent' \in BOOLEAN /\ crossed' \in BOOLEAN /\ forgot' \in BOOLEAN
         /\ RequestTypeOK'
<1>1. /\ sel \in Token \cup {NoToken} /\ qry \in Token \cup {NoToken}
      /\ spent \in BOOLEAN /\ crossed \in BOOLEAN /\ forgot \in BOOLEAN
      /\ pending \subseteq Token /\ stray \in BOOLEAN
  BY NetworkFacts
<1>2. CASE \E t \in Token : Request(t)
  BY <1>1, <1>2
     DEF Request, QueryAvailableNetworks, SetSelectionAutomatic, SetSelectionManual, Select,
         Reply, SetPreferredNetworkType, PowerOn, PowerOff, Answer, RequestTypeOK
<1>3. CASE Confirm \/ \E full \in BOOLEAN : NetworkSelect(full)
  BY <1>1, <1>3 DEF Confirm, SearchCnf, SelectCnf, NetworkSelect, Answer, RequestTypeOK
<1>4. CASE CpSystemStart \/ Restart \/ RestartInSave
  BY <1>1, <1>4
     DEF CpSystemStart, Restart, RestartInSave, StartAgain, tokenVars, RequestTypeOK
<1> QED
  BY <1>2, <1>3, <1>4 DEF Next

LEMMA NetworkStep == NetInv /\ [Next]_vars => NetInv'
<1> SUFFICES ASSUME NetInv, [Next]_vars PROVE NetInv'
  OBVIOUS
<1>1. CASE Next
  <2>1. Awaited' /\ Apart' /\ cmds' \in Seq(Command)
    <3>1. ASSUME NEW full \in BOOLEAN, NetworkSelect(full)
          PROVE  Awaited' /\ Apart' /\ cmds' \in Seq(Command)
      <4>1. cmds' = cmds
        BY <3>1 DEF NetworkSelect
      <4> QED
        BY <3>1, <4>1, NetworkFacts, NetworkSelectTokens
    <3> QED
      BY <1>1, <3>1, RequestTokens, ConfirmTokens, RestartTokens DEF Next
  <2>2. TypeOK'
    BY <1>1, <2>1, NetworkLists, NetworkModes, NetworkTokenTypes DEF TypeOK, ModesOK
  <2> QED
    BY <1>1, <2>1, <2>2, NetworkLists, NetworkModes DEF NetInv
<1>2. CASE UNCHANGED vars
  BY <1>2 DEF vars, tokenVars, configVars, radioVars, listVars, NetInv, TypeOK, RequestTypeOK,
              Awaited, LastFor, Apart, ListFromReport, SettingsKept, FileKept
<1> QED
  BY <1>1, <1>2

LEMMA NetworkInvariant == Spec => []NetInv
  BY NetworkInit, NetworkStep, PTL DEF Spec

-----------------------------------------------------------------------------
(* Both tokens of network.c: whoever completes one early, a token that is  *)
(* kept is one the framework waits for, and the last command of its kind   *)
(* that the modem has is its own.                                          *)
THEOREM NetworkAwaited == Spec => []Awaited
  BY NetworkInvariant, PTL DEF NetInv

(* A manual selection can name only what the last search found, with the   *)
(* best type each network had in it.                                       *)
THEOREM NetworkListFromReport == Spec => []ListFromReport
  BY NetworkInvariant, PTL DEF NetInv

(* Through power off and restarts on either side, both settings stay what  *)
(* was asked for; only a restart that cuts off a write of ril_config.bin   *)
(* loses the selection mode, which is the default, AUTO, from then on.     *)
THEOREM NetworkSettingsKept == Spec => []SettingsKept
  BY NetworkInvariant, PTL DEF NetInv
=============================================================================
