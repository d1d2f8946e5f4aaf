------------------------ MODULE HoldingsSheetsProofs ------------------------
(* What the holding commands and the pipeline may rely on, for every set of   *)
(* symbols and writers and every length of the coverage window: the reasons   *)
(* of a refusal, for writers that overlap as they like; and, for writers that *)
(* are kept apart, the repaired year behind an enable, the rows a rewrite     *)
(* keeps and the one validation row of a session.                             *)
EXTENDS HoldingsSheets, FiniteSetTheorems, TLAPS

-----------------------------------------------------------------------------
(* Types.                                                                  *)

Names == Symbols \cup {"-"}
Rows  == [symbol : Names, day : Int, status : Statuses \cup {"-"}]

\* The tables a writer still has before it: each at most once.
Distinct(q) == \A i, j \in DOMAIN q : q[i] = q[j] => i = j
Queues      == {q \in Seq(Tables) : Distinct(q)}
Pending(q)  == {q[i] : i \in DOMAIN q}

Stages == {"idle", "snapshot", "load", "decide", "watchlist", "audit", "read", "clear", "put",
           "validate", "plan", "done"}

Memory == [pc : Stages, op : Ops \cup {"latest", "full", "QFQ", "-"}, symbol : Names, asOf : Int,
           seen : {"absent", "on", "off"}, failed : SUBSET Names, global : BOOLEAN,
           cache : [Tables -> SUBSET Rows], todo : Queues, got : [Tables -> SUBSET Rows],
           validates : SUBSET Names, faulty : BOOLEAN,
           outcome : {"-", "SUCCESS", "FAILED", "IDEMPOTENT"}]

\* A writer at a table has one before it.
Ready(r) == r.pc \in {"load", "clear", "put", "read"} => r.todo # << >>
Memories == {r \in Memory : Ready(r)}

\* The sheets and the writers' memories are well typed.
TypeOK ==
    /\ today \in Int
    /\ sheet \in [Tables -> SUBSET Rows]
    /\ validation \subseteq [symbol : Names, day : Int, by : Writers]
    /\ watch \in [Symbols -> {"absent", "on", "off"}]
    /\ run \in [Writers -> Memories]

-----------------------------------------------------------------------------
(* The writers, kept apart.                                                *)

\* At most one of them is under way.
OneWriter == \A p, q \in Writers : Idle(p) \/ Idle(q) \/ p = q

\* The tables a command reads.
Reads(op) == IF op = "SYNC" THEN Histories ELSE Tables

\* A command that is loading has taken the quote it will write.
Quoted(r) == \E x \in r.got["latest"] : x.symbol = r.symbol /\ x.day = r.asOf

\* Where a writer is, and what that says of the rest of its memory.
InOrder(p, r) ==
    /\ r.pc = "idle" => r = Fresh
    /\ r.pc = "done" => r = Ended
    /\ p \in Pipelines => r.op \notin Ops
    /\ p \in Commands =>
          /\ r.pc \in {"snapshot", "load", "decide"} => r.op \in Ops \ {"CLOSE"} /\ r.validates = {}
          /\ r.pc \in {"load", "decide"} => Quoted(r)
          /\ r.pc \in {"clear", "put", "validate"} => r.op \in Ops \ {"CLOSE"}
          /\ r.pc = "validate" => r.todo = << >>
          /\ r.pc = "watchlist" => r.op \in Ops \ {"SYNC"} /\ r.todo = << >> /\ r.validates = {}

\* The tables whose rows a writer holds and has not touched.
Mirrored(p, r) ==
    CASE r.pc = "load"                       -> Reads(r.op) \ Pending(r.todo)
      [] r.pc = "decide"                     -> Reads(r.op)
      [] r.pc = "clear" /\ p \in Commands    -> Pending(r.todo)
      [] r.pc = "clear" /\ p \notin Commands -> {Head(r.todo)}
      [] r.pc = "put" /\ p \in Commands      -> Pending(Tail(r.todo))
      [] OTHER                               -> {}

\* What a table holds once the writer has put back what it still has to write.
InTheEnd(r, t, tables) == IF t \in Pending(r.todo) THEN Content(r, t) ELSE tables[t]

Noted(rows, s, d) == \E v \in rows : v.symbol = s /\ v.day = d

\* The year, the quote and the validation row of the symbol, once that is done.
Repaired(r, tables, rows) ==
    LET D(t) == DaysOf(InTheEnd(r, t, tables), r.symbol)
    IN  /\ CoverageOk(D("raw"), D("qfq"), Start(r), r.asOf)
        /\ \E x \in InTheEnd(r, "latest", tables) : x.symbol = r.symbol /\ x.day = r.asOf
        /\ Noted(rows, r.symbol, r.asOf) \/ r.symbol \in r.validates

\* A validation row is still to be appended only where there is none.
NoneYet(r, rows) ==
    /\ r.validates \subseteq {r.symbol}
    /\ r.validates # {} => ~Noted(rows, r.symbol, r.asOf)

Sound(p, r, tables, rows) ==
    /\ InOrder(p, r)
    /\ \A t \in Mirrored(p, r) : r.cache[t] = tables[t]
    /\ p \in Commands =>
          /\ NoneYet(r, rows)
          /\ r.op \in {"ADD", "REENTER"} /\ r.pc \in {"clear", "put", "validate", "watchlist"}
             => Repaired(r, tables, rows)

ApartInv ==
    /\ OneWriter
    /\ CommandsValidateOnce
    /\ \A p \in Writers : Sound(p, run[p], sheet, validation)

-----------------------------------------------------------------------------
(* The queue of a writer.                                                  *)

LEMMA HeadOff ==
    ASSUME NEW q \in Queues, q # << >>
    PROVE  /\ Head(q) \in Tables /\ Head(q) \in Pending(q) /\ Pending(q) \subseteq Tables
           /\ Tail(q) \in Queues /\ Pending(Tail(q)) = Pending(q) \ {Head(q)}
<1>1. /\ Len(q) \in Nat \ {0} /\ DOMAIN q = 1..Len(q) /\ \A i \in DOMAIN q : q[i] \in Tables
      /\ \A i, j \in DOMAIN q : q[i] = q[j] => i = j
  BY DEF Queues, Distinct
<1>2. Head(q) = q[1] /\ Tail(q) \in Seq(Tables) /\ Len(Tail(q)) = Len(q) - 1
      /\ DOMAIN Tail(q) = 1..(Len(q) - 1) /\ \A i \in 1..(Len(q) - 1) : Tail(q)[i] = q[i + 1]
  BY DEF Queues
<1>3. Distinct(Tail(q))
  BY <1>1, <1>2 DEF Distinct
<1>4. Pending(Tail(q)) = Pending(q) \ {q[1]}
  <2>1. ASSUME NEW x \in Pending(Tail(q)) PROVE x \in Pending(q) \ {q[1]}
    BY <2>1, <1>1, <1>2 DEF Pending
  <2>2. ASSUME NEW x \in Pending(q) \ {q[1]} PROVE x \in Pending(Tail(q))
    <3>1. PICK i \in DOMAIN q : x = q[i] /\ i # 1
      BY DEF Pending
    <3>2. (i - 1) \in 1..(Len(q) - 1) /\ Tail(q)[i - 1] = x
      BY <3>1, <1>1, <1>2
    <3> QED BY <3>2, <1>2 DEF Pending
  <2> QED BY <2>1, <2>2
<1>5. q[1] \in Pending(q) /\ Pending(q) \subseteq Tables
  BY <1>1 DEF Pending
<1>6. q[1] \in Tables /\ Tail(q) \in Queues
  BY <1>1, <1>2, <1>3 DEF Queues
<1> QED BY <1>2, <1>4, <1>5, <1>6

LEMMA Joined ==
    ASSUME NEW p \in Queues, NEW q \in Queues, Pending(p) \cap Pending(q) = {}
    PROVE  p \o q \in Queues /\ Pending(p \o q) = Pending(p) \cup Pending(q)
<1> DEFINE s == p \o q
           m == Len(p)
           n == Len(q)
<1>1. /\ m \in Nat /\ n \in Nat /\ DOMAIN p = 1..m /\ DOMAIN q = 1..n
      /\ s \in Seq(Tables) /\ DOMAIN s = 1..(m + n)
      /\ \A i \in 1..(m + n) : s[i] = IF i <= m THEN p[i] ELSE q[i - m]
  BY DEF Queues
<1>2. Pending(s) = Pending(p) \cup Pending(q)
  <2>1. ASSUME NEW x \in Pending(s) PROVE x \in Pending(p) \cup Pending(q)
    BY <2>1, <1>1 DEF Pending
  <2>2. ASSUME NEW x \in Pending(p) PROVE x \in Pending(s)
    <3>1. PICK i \in 1..m : x = p[i]
      BY <1>1 DEF Pending
    <3>2. i \in 1..(m + n) /\ s[i] = x
      BY <3>1, <1>1
    <3> HIDE DEF s
    <3> QED BY <3>2, <1>1 DEF Pending
  <2>3. ASSUME NEW x \in Pending(q) PROVE x \in Pending(s)
    <3>1. PICK i \in 1..n : x = q[i]
      BY <1>1 DEF Pending
    <3>2. i + m \in 1..(m + n) /\ s[i + m] = x
      BY <3>1, <1>1
    <3> HIDE DEF s
    <3> QED BY <3>2, <1>1 DEF Pending
  <2> HIDE DEF s
  <2> QED BY <2>1, <2>2, <2>3
<1>3. Distinct(s)
  <2> SUFFICES ASSUME NEW i \in 1..(m + n), NEW j \in 1..(m + n), s[i] = s[j], i # j PROVE FALSE
    BY <1>1 DEF Distinct
  <2>1. \A a \in 1..m, b \in 1..n : p[a] # q[b]
    BY <1>1 DEF Pending
  <2>2. (\A a, b \in 1..m : p[a] = p[b] => a = b) /\ (\A a, b \in 1..n : q[a] = q[b] => a = b)
    BY <1>1 DEF Queues, Distinct
  <2> HIDE DEF s, m, n
  <2>3. CASE i <= m /\ j <= m
    BY <2>2, <2>3, <1>1
  <2>4. CASE ~(i <= m) /\ ~(j <= m)
    <3>1. i - m \in 1..n /\ j - m \in 1..n /\ q[i - m] = q[j - m]
      BY <2>4, <1>1
    <3> QED BY <3>1, <2>2, <1>1
  <2>5. CASE i <= m /\ ~(j <= m)
    <3>1. i \in 1..m /\ j - m \in 1..n /\ p[i] = q[j - m]
      BY <2>5, <1>1
    <3> QED BY <3>1, <2>1
  <2>6. CASE ~(i <= m) /\ j <= m
    <3>1. j \in 1..m /\ i - m \in 1..n /\ p[j] = q[i - m]
      BY <2>6, <1>1
    <3> QED BY <3>1, <2>1
  <2> QED BY <2>3, <2>4, <2>5, <2>6
<1> QED BY <1>1, <1>2, <1>3 DEF Queues

\* The tables a decision has rows for are the ones it writes, each once.
LEMMA WrittenIsDue ==
    ASSUME NEW got, NEW op
    PROVE  Written(got, op) \in Queues /\ Pending(Written(got, op)) = {t \in Reads(op) : got[t] # {}}
<1> DEFINE Due(t) == IF got[t] # {} THEN <<t>> ELSE << >>
<1>1. << >> \in Queues /\ Pending(<< >>) = {}
  BY DEF Queues, Pending, Distinct
<1>2. \A t \in Tables : Due(t) \in Queues /\ Pending(Due(t)) = {u \in {t} : got[u] # {}}
  <2>1. \A t \in Tables : <<t>> \in Queues /\ Pending(<<t>>) = {t}
    BY DEF Queues, Pending, Distinct
  <2> QED BY <1>1, <2>1
<1>3. Written(got, op) = Due("raw") \o Due("qfq") \o (IF op = "SYNC" THEN << >> ELSE Due("latest"))
  BY DEF Written
<1> HIDE DEF Due
<1>4. /\ Due("raw") \o Due("qfq") \in Queues
      /\ Pending(Due("raw") \o Due("qfq")) = {u \in {"raw", "qfq"} : got[u] # {}}
  BY <1>2, Joined DEF Tables
<1> DEFINE rest == IF op = "SYNC" THEN << >> ELSE Due("latest")
<1>5. rest \in Queues /\ Pending(rest) = IF op = "SYNC" THEN {} ELSE {u \in {"latest"} : got[u] # {}}
  BY <1>1, <1>2 DEF Tables
<1> HIDE DEF rest
<1>6. Written(got, op) = (Due("raw") \o Due("qfq")) \o rest
  BY <1>3 DEF rest
<1>7. Pending(Due("raw") \o Due("qfq")) \cap Pending(rest) = {}
  BY <1>4, <1>5
<1> QED BY <1>4, <1>5, <1>6, <1>7, Joined DEF Reads, Tables, Histories

-----------------------------------------------------------------------------
(* Type correctness.                                                       *)

LEMMA RowTyped ==
    ASSUME NEW s \in Names, NEW d \in Int, NEW status \in Statuses \cup {"-"}
    PROVE  Row(s, d, status) \in Rows
  BY DEF Row, Rows

LEMMA HistoryRowsTyped ==
    ASSUME NEW S \in SUBSET Names, NEW D \in SUBSET Int
    PROVE  HistoryRows(S, D) \subseteq Rows
  BY RowTyped DEF HistoryRows

LEMMA FailureRowTyped ==
    ASSUME NEW rows \in SUBSET Rows, NEW s \in Names
    PROVE  FailureRow(rows, s) \in Rows
<1> DEFINE D == DaysOf(rows, s)
<1>1. D \subseteq Int
  BY DEF DaysOf, Rows
<1>2. \E d \in D \cup {0} : D # {} => d \in D
  OBVIOUS
<1> DEFINE day == CHOOSE d \in D \cup {0} : D # {} => d \in D
<1>3. day \in Int
  <2>1. day \in D \cup {0}
    BY <1>2, Zenon
  <2> HIDE DEF D, day
  <2> QED BY <1>1, <2>1
<1> HIDE DEF day
<1> QED BY <1>3, RowTyped DEF FailureRow, Statuses, D, day

LEMMA FreshTyped ==
    /\ Fresh \in Memories /\ Ended \in Memories /\ \A p : Raised(p) \in Memories
    /\ \A outcome \in {"SUCCESS", "FAILED", "IDEMPOTENT"} : Verdict(outcome) \in Memories
<1>1. << >> \in Queues
  BY DEF Queues, Distinct
<1>2. Fresh \in Memory
  BY <1>1 DEF Fresh, Memory, Stages, Names
<1>3. Ended \in Memory
  BY <1>2 DEF Ended, Memory, Stages
<1>4. \A outcome \in {"SUCCESS", "FAILED", "IDEMPOTENT"} : Verdict(outcome) \in Memory
  BY <1>2 DEF Verdict, Memory, Stages
<1>5. [Verdict("FAILED") EXCEPT !.faulty = TRUE] \in Memory
  BY <1>4 DEF Memory
<1>6. Fresh.pc = "idle" /\ Ended.pc = "done" /\ \A outcome : Verdict(outcome).pc = "audit"
  BY DEF Fresh, Ended, Verdict
<1>7. [Verdict("FAILED") EXCEPT !.faulty = TRUE].pc = "audit"
  BY <1>4, <1>6 DEF Memory
<1>8. \A p : Raised(p) \in Memories
  <2> SUFFICES ASSUME NEW p PROVE Raised(p) \in Memories
    OBVIOUS
  <2>1. Raised(p) = [Verdict("FAILED") EXCEPT !.faulty = TRUE] \/ Raised(p) = Ended
    BY DEF Raised
  <2> QED BY <1>3, <1>5, <1>6, <1>7, <2>1 DEF Memories, Ready
<1> QED BY <1>2, <1>3, <1>4, <1>6, <1>8 DEF Memories, Ready

LEMMA MovedTyped ==
    ASSUME NEW r \in Memory, NEW pc \in Stages,
           r.todo # << >> \/ pc \notin {"load", "clear", "put", "read"}
    PROVE  [r EXCEPT !.pc = pc] \in Memories
<1> DEFINE s == [r EXCEPT !.pc = pc]
<1>1. s \in Memory /\ s.pc = pc /\ s.todo = r.todo
  BY DEF Memory
<1> HIDE DEF s
<1>2. s \in Memories
  BY <1>1 DEF Memories, Ready
<1> QED BY <1>2 DEF s

LEMMA RefusedTyped == \A r \in Memory : Refused(r) \in Memories
<1>1. << >> \in Queues
  BY DEF Queues, Distinct
<1> SUFFICES ASSUME NEW r \in Memory PROVE Refused(r) \in Memories
  OBVIOUS
<1>2. Refused(r) \in Memory /\ Refused(r).pc = "audit"
  BY <1>1 DEF Refused, Memory, Stages
<1> QED BY <1>2 DEF Memories, Ready

LEMMA OnwardTyped == \A r \in Memory : Onward(r) \in Memories
<1> SUFFICES ASSUME NEW r \in Memory PROVE Onward(r) \in Memories
  OBVIOUS
<1>1. \/ r.todo # << >> /\ \E pc \in {"clear", "read"} : Onward(r) = [r EXCEPT !.pc = pc]
      \/ \E pc \in {"validate", "watchlist", "plan"} : Onward(r) = [r EXCEPT !.pc = pc]
      \/ Onward(r) \in {Verdict("SUCCESS"), Ended}
  BY DEF Onward
<1>2. ASSUME NEW pc \in {"clear", "read"}, r.todo # << >> PROVE [r EXCEPT !.pc = pc] \in Memories
  BY <1>2, MovedTyped DEF Stages
<1>3. ASSUME NEW pc \in {"validate", "watchlist", "plan"} PROVE [r EXCEPT !.pc = pc] \in Memories
  BY <1>3, MovedTyped DEF Stages
<1> QED BY <1>1, <1>2, <1>3, FreshTyped

LEMMA ContentTyped ==
    ASSUME NEW r \in Memory, NEW t \in Tables
    PROVE  Content(r, t) \subseteq Rows
<1>1. r.cache[t] \subseteq Rows /\ r.got[t] \subseteq Rows
  BY DEF Memory
<1> QED BY <1>1 DEF Content, UpsertLatest, UpsertHistory, ReplaceSeries

LEMMA InitTypeOK == Init => TypeOK
<1> SUFFICES ASSUME Init PROVE TypeOK
  OBVIOUS
<1>1. FirstDay \in Int /\ Before \subseteq Int /\ Legacy \subseteq Names
  BY HoldingsAssumption, CoverageAssumption DEF Before, WindowStart, Names
<1>2. \A D \in SUBSET Before : HistoryRows(Legacy, D) \subseteq Rows
  BY <1>1, HistoryRowsTyped
<1>3. sheet \in [Tables -> SUBSET Rows]
  BY <1>2 DEF Init
<1> QED BY <1>1, <1>3, FreshTyped DEF Init, TypeOK

LEMMA SetTyped ==
    ASSUME TypeOK, NEW p \in Writers, NEW r \in Memories, Set(p, r)
    PROVE  run' \in [Writers -> Memories]
  BY DEF TypeOK, Set

LEMMA Members == Commands \subseteq Writers /\ Pipelines \subseteq Writers
  BY DEF Writers

LEMMA ReceivedTyped == \A r \in Memory : Received(r) \in Memories
<1> SUFFICES ASSUME NEW r \in Memory PROVE Received(r) \in Memories
  OBVIOUS
<1>1. \/ Received(r) \in {Verdict("IDEMPOTENT"), Refused(r)}
      \/ \E pc \in {"watchlist", "snapshot"} : Received(r) = [r EXCEPT !.pc = pc]
  BY DEF Received
<1>2. ASSUME NEW pc \in {"watchlist", "snapshot"} PROVE [r EXCEPT !.pc = pc] \in Memories
  BY <1>2, MovedTyped DEF Stages
<1> QED BY <1>1, <1>2, FreshTyped, RefusedTyped

LEMMA LoadedTyped == \A r \in Memory, t \in Tables : Loaded(r, t) \in Memories
<1> SUFFICES ASSUME NEW r \in Memory, NEW t \in Tables PROVE Loaded(r, t) \in Memories
  OBVIOUS
<1>1. \/ Loaded(r, t) = Refused(r)
      \/ Loaded(r, t) = [r EXCEPT !.pc = "decide"]
      \/ r.todo # << >> /\ Loaded(r, t) = r
  BY DEF Loaded
<1>2. [r EXCEPT !.pc = "decide"] \in Memories
  BY MovedTyped DEF Stages
<1> QED BY <1>1, <1>2, RefusedTyped DEF Memories, Ready

LEMMA StoredTyped == \A r \in Memory, t \in Tables : Stored(r, t) \subseteq Int
  BY DEF Stored, DaysOf, Memory, Rows

LEMMA RepairTyped ==
    ASSUME NEW r \in Memory
    PROVE  Repair(r) \in [Tables -> SUBSET Rows] /\ Written(Repair(r), r.op) \in Queues
                                                 /\ ToValidate(r) \subseteq Names
<1>1. \A t \in Tables : Fetched(r, t) \subseteq Int
  <2>1. \A D : Asked(D, r) \subseteq Int
    BY DEF Asked
  <2> QED BY <2>1 DEF Fetched
<1>2. {r.symbol} \subseteq Names /\ r.got["latest"] \subseteq Rows
  BY DEF Memory, Tables
<1>3. Repair(r) \in [Tables -> SUBSET Rows]
  BY <1>1, <1>2, HistoryRowsTyped DEF Repair, Tables, Histories
<1>4. ToValidate(r) \subseteq Names
  BY <1>2 DEF ToValidate
<1> QED BY <1>3, <1>4, WrittenIsDue

LEMMA DecidedTyped == \A r \in Memory : Decided(r) \in Memories
<1> SUFFICES ASSUME NEW r \in Memory PROVE Decided(r) \in Memories
  OBVIOUS
<1> DEFINE next == [r EXCEPT !.got = Repair(r), !.todo = Written(Repair(r), r.op), !.validates = ToValidate(r)]
<1>1. next \in Memory
  BY RepairTyped DEF Memory
<1> HIDE DEF next
<1>2. Decided(r) \in {Verdict("IDEMPOTENT"), Refused(r), Onward(next)}
  BY DEF Decided, next
<1> QED BY <1>1, <1>2, FreshTyped, RefusedTyped, OnwardTyped

LEMMA CommandTyped ==
    ASSUME TypeOK, NEW c \in Commands, CommandStep(c)
    PROVE  TypeOK'
<1>1. c \in Writers /\ run[c] \in Memory /\ Ready(run[c])
  BY Members DEF TypeOK, Memories
<1>2. CASE Receive(c)
  <2>1. PICK op \in Ops, s \in Named :
          Set(c, Received([run[c] EXCEPT !.op = op, !.symbol = s, !.seen = watch[s]]))
    BY <1>2 DEF Receive
  <2> DEFINE r == [run[c] EXCEPT !.op = op, !.symbol = s, !.seen = watch[s]]
  <2>2. s \in Symbols /\ s \in Names /\ watch[s] \in {"absent", "on", "off"}
    BY HoldingsAssumption DEF TypeOK, Names
  <2>3. r \in Memory
    BY <1>1, <2>2 DEF Memory
  <2> HIDE DEF r
  <2>4. run' \in [Writers -> Memories]
    BY <1>1, <2>1, <2>3, ReceivedTyped, SetTyped DEF r
  <2> QED BY <1>2, <2>4 DEF Receive, TypeOK
<1>3. CASE Snapshot(c)
  <2>1. PICK status \in {"VERIFIED", "REVIEW"} :
          Set(c, [run[c] EXCEPT !.pc = "load", !.asOf = today,
                    !.got["latest"] = {Row(run[c].symbol, today, status)},
                    !.todo = IF run[c].op = "SYNC" THEN <<"raw", "qfq">> ELSE <<"raw", "qfq", "latest">>])
    BY <1>3 DEF Snapshot
  <2> DEFINE todo == IF run[c].op = "SYNC" THEN <<"raw", "qfq">> ELSE <<"raw", "qfq", "latest">>
  <2>2. todo \in Queues
    BY DEF Queues, Distinct, Tables
  <2>3. {Row(run[c].symbol, today, status)} \subseteq Rows
    BY <1>1, RowTyped DEF TypeOK, Memory, Statuses
  <2> HIDE DEF todo
  <2> DEFINE r == [run[c] EXCEPT !.pc = "load", !.asOf = today,
                            !.got["latest"] = {Row(run[c].symbol, today, status)}, !.todo = todo]
  <2>4. r \in Memory /\ r.todo = todo /\ todo # << >>
    <3>1. todo # << >>
      BY DEF todo
    <3> QED BY <1>1, <2>2, <2>3, <3>1 DEF TypeOK, Memory, Stages, Tables
  <2> HIDE DEF r
  <2>5. run' \in [Writers -> Memories]
    BY <1>1, <2>1, <2>4, SetTyped DEF todo, r, Memories, Ready
  <2> QED BY <1>3, <2>5 DEF Snapshot, TypeOK
<1>4. CASE Load(c)
  <2> DEFINE t == Head(run[c].todo)
             r == [run[c] EXCEPT !.cache[t] = sheet[t], !.todo = Tail(@)]
  <2>1. run[c].todo \in Queues
    BY <1>1 DEF Memory
  <2>2. run[c].todo # << >>
    BY <1>1, <1>4 DEF Load, Ready
  <2>3. t \in Tables /\ Tail(run[c].todo) \in Queues
    BY <2>1, <2>2, HeadOff
  <2> HIDE DEF t
  <2>4. r \in Memory
    BY <1>1, <2>3 DEF TypeOK, Memory
  <2> HIDE DEF r
  <2>5. run' \in [Writers -> Memories]
    BY <1>1, <1>4, <2>3, <2>4, LoadedTyped, SetTyped DEF Load, r, t
  <2> QED BY <1>4, <2>5 DEF Load, TypeOK
<1>5. CASE Decide(c)
  <2>1. run' \in [Writers -> Memories]
    BY <1>1, <1>5, DecidedTyped, SetTyped DEF Decide
  <2> QED BY <1>5, <2>1 DEF Decide, TypeOK
<1>6. CASE WriteWatchlist(c)
  <2>1. run' \in [Writers -> Memories]
    BY <1>1, <1>6, FreshTyped, SetTyped DEF WriteWatchlist
  <2>2. watch' \in [Symbols -> {"absent", "on", "off"}]
    BY <1>6 DEF WriteWatchlist, TypeOK
  <2> QED BY <1>6, <2>1, <2>2 DEF WriteWatchlist, TypeOK
<1>7. CASE Audit(c)
  <2>1. run' \in [Writers -> Memories]
    BY <1>1, <1>7, FreshTyped, SetTyped DEF Audit
  <2> QED BY <1>7, <2>1 DEF Audit, TypeOK
<1> QED BY <1>2, <1>3, <1>4, <1>5, <1>6, <1>7 DEF CommandStep

LEMMA SeriesTyped == \A S \in SUBSET Names, d \in Int : Series(S, d) \subseteq Rows
  BY HistoryRowsTyped, HoldingsAssumption DEF Series

LEMMA PreparedTyped ==
    ASSUME today \in Int, NEW ok \in SUBSET Names, NEW review, NEW unadjusted
    PROVE  Prepared(ok, review, unadjusted) \in [Tables -> SUBSET Rows]
<1> DEFINE status(s) == IF s \in Canonical THEN "DATA_OK"
                        ELSE IF s \in review THEN "REVIEW" ELSE "VERIFIED"
<1>1. {Row(s, today, status(s)) : s \in ok} \subseteq Rows
  BY RowTyped DEF Statuses
<1>2. Series(ok, today) \subseteq Rows /\ Series(ok \ unadjusted, today) \subseteq Rows
  <2>1. ok \ unadjusted \in SUBSET Names
    OBVIOUS
  <2> QED BY <2>1, SeriesTyped
<1> QED BY <1>1, <1>2 DEF Prepared

LEMMA PipelineTyped ==
    ASSUME TypeOK, NEW p \in Pipelines, PipelineStep(p)
    PROVE  TypeOK'
<1>1. p \in Writers /\ run[p] \in Memory /\ Ready(run[p])
  BY Members DEF TypeOK, Memories
<1>3. CASE StartPipeline(p)
  <2> DEFINE scope == {s \in GroupSymbols[p] : watch[s] = "on"}
  <2>1. PICK mode \in Modes, failed \in SUBSET scope, review \in SUBSET (scope \ Canonical),
             unadjusted \in SUBSET scope, global \in BOOLEAN :
          Set(p, [run[p] EXCEPT !.pc = "read", !.op = mode, !.asOf = today,
                    !.failed = failed, !.global = global, !.validates = scope \ failed,
                    !.todo = IF mode = "latest" THEN <<"latest">> ELSE <<"latest", "raw", "qfq">>,
                    !.got = Prepared(scope \ failed, review, unadjusted)])
    <3> DEFINE Fetch(mode, failed, review, unadjusted, global) ==
          Set(p, [run[p] EXCEPT !.pc = "read", !.op = mode, !.asOf = today,
                    !.failed = failed, !.global = global, !.validates = scope \ failed,
                    !.todo = IF mode = "latest" THEN <<"latest">> ELSE <<"latest", "raw", "qfq">>,
                    !.got = Prepared(scope \ failed, review, unadjusted)])
    <3>1. \E mode \in Modes, failed \in SUBSET scope, review \in SUBSET (scope \ Canonical),
             unadjusted \in SUBSET scope, global \in BOOLEAN :
            /\ review \cup unadjusted \subseteq scope \ failed
            /\ mode = "latest" => unadjusted = {}
            /\ global => failed \cap Canonical # {}
            /\ Fetch(mode, failed, review, unadjusted, global)
      BY <1>3, Zenon DEF StartPipeline
    <3> HIDE DEF Fetch, scope
    <3>2. \E mode \in Modes, failed \in SUBSET scope, review \in SUBSET (scope \ Canonical),
             unadjusted \in SUBSET scope, global \in BOOLEAN : Fetch(mode, failed, review, unadjusted, global)
      BY <3>1, Zenon
    <3> QED BY <3>2, Zenon DEF Fetch
  <2> DEFINE ok == scope \ failed
             todo == IF mode = "latest" THEN <<"latest">> ELSE <<"latest", "raw", "qfq">>
             got == Prepared(ok, review, unadjusted)
             r == [run[p] EXCEPT !.pc = "read", !.op = mode, !.asOf = today,
                              !.failed = failed, !.global = global, !.validates = ok, !.todo = todo,
                              !.got = got]
  <2>2. ok \subseteq Names /\ failed \subseteq Names /\ mode \in {"latest", "full"} /\ today \in Int
    BY HoldingsAssumption DEF Names, TypeOK
  <2>3. got \in [Tables -> SUBSET Rows]
    BY <2>2, PreparedTyped
  <2>6. todo \in Queues /\ todo # << >>
    BY DEF Queues, Distinct, Tables
  <2> HIDE DEF got, todo, ok
  <2>7. r \in Memory /\ r.todo = todo
    BY <1>1, <2>2, <2>3, <2>6 DEF Memory, Stages
  <2> HIDE DEF r
  <2>8. r \in Memories
    BY <2>6, <2>7 DEF Memories, Ready
  <2>9. run' \in [Writers -> Memories]
    BY <1>1, <2>1, <2>8, SetTyped DEF r, got, todo, ok
  <2> QED BY <1>3, <2>9 DEF StartPipeline, TypeOK
<1>4. CASE Read(p)
  <2> DEFINE t == Head(run[p].todo)
             marks == IF t = "latest" THEN {FailureRow(sheet[t], s) : s \in run[p].failed} ELSE {}
             r == [run[p] EXCEPT !.cache[t] = sheet[t], !.got[t] = @ \cup marks]
  <2>1. run[p].todo \in Queues /\ run[p].todo # << >>
    BY <1>1, <1>4 DEF Read, Ready, Memory
  <2>2. t \in Tables /\ sheet[t] \subseteq Rows
    BY <2>1, HeadOff DEF TypeOK
  <2>3. marks \subseteq Rows
    BY <1>1, <2>2, FailureRowTyped DEF Memory
  <2> HIDE DEF t, marks
  <2>4. r \in Memory /\ r.todo = run[p].todo
    BY <1>1, <2>2, <2>3 DEF Memory
  <2>5. [r EXCEPT !.pc = "clear"] = [run[p] EXCEPT !.pc = "clear", !.cache[t] = sheet[t], !.got[t] = @ \cup marks]
    BY <1>1 DEF Memory
  <2> HIDE DEF r
  <2>6. [r EXCEPT !.pc = "clear"] \in Memories
    BY <2>1, <2>4, MovedTyped DEF Stages
  <2>7. run' \in [Writers -> Memories]
    BY <1>1, <1>4, <2>5, <2>6, SetTyped DEF Read, t, marks
  <2> QED BY <1>4, <2>7 DEF Read, TypeOK
<1>5. CASE PlanRefresh(p)
  <2>1. PICK fetched \in SUBSET Refreshable(p) :
          Set(p, Onward([run[p] EXCEPT !.op = "QFQ", !.validates = {},
                            !.todo = IF fetched = {} THEN << >> ELSE <<"qfq">>,
                            !.got["qfq"] = UNION {Series({x.symbol}, x.day) : x \in fetched}]))
    BY <1>5 DEF PlanRefresh
  <2> DEFINE got == UNION {Series({x.symbol}, x.day) : x \in fetched}
             todo == IF fetched = {} THEN << >> ELSE <<"qfq">>
             r == [run[p] EXCEPT !.op = "QFQ", !.validates = {}, !.todo = todo, !.got["qfq"] = got]
  <2>2. fetched \subseteq Rows
    BY DEF Refreshable, TypeOK, Tables
  <2>3. got \subseteq Rows
    <3>1. \A x \in fetched : Series({x.symbol}, x.day) \subseteq Rows
      BY <2>2, SeriesTyped DEF Rows
    <3> QED BY <3>1
  <2>4. todo \in Queues
    BY DEF Queues, Distinct, Tables
  <2> HIDE DEF got, todo
  <2>5. r \in Memory
    BY <1>1, <2>3, <2>4 DEF Memory, Tables
  <2> HIDE DEF r
  <2>6. run' \in [Writers -> Memories]
    BY <1>1, <2>1, <2>5, OnwardTyped, SetTyped DEF r, got, todo
  <2> QED BY <1>5, <2>6 DEF PlanRefresh, TypeOK
<1> QED BY <1>3, <1>4, <1>5 DEF PipelineStep

LEMMA WriteTyped ==
    ASSUME TypeOK, NEW p \in Writers,
           Clear(p) \/ Put(p) \/ AppendValidation(p) \/ CallFails(p) \/ Die(p)
    PROVE  TypeOK'
<1>1. run[p] \in Memory /\ Ready(run[p])
  BY DEF TypeOK, Memories
<1> DEFINE t == Head(run[p].todo)
<1>2. ASSUME run[p].todo # << >> PROVE t \in Tables /\ Tail(run[p].todo) \in Queues
  BY <1>1, <1>2, HeadOff DEF Memory
<1>3. CASE Clear(p)
  <2>1. run[p].todo # << >> /\ t \in Tables
    BY <1>1, <1>2, <1>3 DEF Clear, Ready
  <2> HIDE DEF t
  <2>2. sheet' \in [Tables -> SUBSET Rows]
    BY <1>3, <2>1 DEF Clear, TypeOK, t
  <2>3. [run[p] EXCEPT !.pc = "put"] \in Memories
    BY <1>1, <2>1, MovedTyped DEF Stages
  <2>4. run' \in [Writers -> Memories]
    BY <1>3, <2>3, FreshTyped, SetTyped DEF Clear
  <2> QED BY <1>3, <2>2, <2>4 DEF Clear, TypeOK
<1>4. CASE Put(p)
  <2>1. t \in Tables /\ Tail(run[p].todo) \in Queues
    BY <1>1, <1>2, <1>4 DEF Put, Ready
  <2> HIDE DEF t
  <2>2. Content(run[p], t) \subseteq Rows
    BY <1>1, <2>1, ContentTyped
  <2>3. sheet' \in [Tables -> SUBSET Rows]
    BY <1>4, <2>1, <2>2 DEF Put, TypeOK, t
  <2> DEFINE r == [run[p] EXCEPT !.todo = Tail(@), !.cache[t] = {}, !.got[t] = {}]
  <2>4. r \in Memory
    BY <1>1, <2>1 DEF Memory
  <2> HIDE DEF r
  <2>5. run' \in [Writers -> Memories]
    BY <1>4, <2>4, FreshTyped, OnwardTyped, SetTyped DEF Put, r, t
  <2> QED BY <1>4, <2>3, <2>5 DEF Put, TypeOK
<1>5. CASE AppendValidation(p)
  <2> DEFINE r == [run[p] EXCEPT !.validates = {}]
  <2>1. r \in Memory
    BY <1>1 DEF Memory
  <2> HIDE DEF r
  <2>2. run' \in [Writers -> Memories]
    BY <1>5, <2>1, FreshTyped, OnwardTyped, SetTyped DEF AppendValidation, r
  <2>3. validation' \subseteq [symbol : Names, day : Int, by : Writers]
    BY <1>1, <1>5 DEF AppendValidation, TypeOK, Memory
  <2> QED BY <1>5, <2>2, <2>3 DEF AppendValidation, TypeOK
<1>6. CASE CallFails(p)
  <2>1. run' \in [Writers -> Memories]
    BY <1>6, FreshTyped, SetTyped DEF CallFails
  <2> QED BY <1>6, <2>1 DEF CallFails, TypeOK
<1>7. CASE Die(p)
  <2>1. run' \in [Writers -> Memories]
    BY <1>7, FreshTyped, SetTyped DEF Die
  <2> QED BY <1>7, <2>1 DEF Die, TypeOK
<1> QED BY <1>3, <1>4, <1>5, <1>6, <1>7

LEMMA StepTypeOK == TypeOK /\ [Next]_vars => TypeOK'
<1> SUFFICES ASSUME TypeOK, [Next]_vars PROVE TypeOK'
  OBVIOUS
<1>1. CASE NextSession
  BY <1>1 DEF NextSession, TypeOK
<1>2. CASE UNCHANGED vars
  BY <1>2 DEF vars, TypeOK
<1> QED BY <1>1, <1>2, CommandTyped, PipelineTyped, WriteTyped DEF Next

\* The sheets and the writers are well typed, and a writer at a table has one before
\* it, for writers that overlap, fail and die as they like.
THEOREM TypeCorrect == Spec => []TypeOK
  BY InitTypeOK, StepTypeOK, PTL DEF Spec

-----------------------------------------------------------------------------
(* The reasons of a refusal.                                               *)

\* A stored day outside the window, or missing where nothing is asked for.
Stray(r, t) == \E d \in Stored(r, t) : d < Start(r) \/ d > r.asOf
Reason(r) ==
    \/ r.op \in {"REENTER", "SYNC"} /\ r.seen = "absent"
    \/ \E t \in Histories : Stray(r, t)
    \/ \E t \in Histories : SmallHole(Stored(r, t), r)

RefusedFor(r) == (r.pc = "audit" /\ r.outcome = "FAILED" /\ ~r.faulty) => Reason(r)

\* The provider is asked for days of the window that are not stored.
LEMMA AskedIsMissing ==
    ASSUME NEW r, NEW D \in SUBSET Int, r.asOf \in Int,
           \A d \in D : Start(r) <= d /\ d <= r.asOf
    PROVE  Asked(D, r) \subseteq Start(r)..r.asOf /\ Asked(D, r) \cap D = {}
<1> DEFINE start == Start(r)
           end == r.asOf
           W == {d \in D : start <= d /\ d <= end}
<1>1. start \in Int /\ end \in Int /\ start <= end /\ W = D
  <2>1. start \in Int /\ end \in Int /\ start <= end
    BY CoverageAssumption DEF Start, WindowStart
  <2> QED BY <2>1
<1>2. Asked(D, r) = UNION {p[1]..p[2] : p \in CoverageGaps(D, start, end)}
  BY DEF Asked
<1> HIDE DEF start, end
<1>3. ASSUME NEW p \in CoverageGaps(D, start, end)
      PROVE  p[1]..p[2] \subseteq start..end /\ \A e \in p[1]..p[2] : e \notin D
  <2>1. CASE D = {}
    <3>1. p = <<start, end>>
      BY <1>1, <1>3, <2>1 DEF CoverageGaps
    <3> QED BY <3>1, <2>1
  <2>2. CASE D # {}
    <3> HIDE DEF W
    <3>1. \/ p \in {<<start, d - 1>> : d \in {e \in W : IsFirstDay(e, W) /\ e - start > MaxBoundaryLag}}
          \/ p \in {<<d + 1, end>> : d \in {e \in W : IsLastDay(e, W) /\ e < end}}
          \/ p \in {<<q[1] + 1, q[2] - 1>> : q \in SuspiciousGaps(W)}
      BY <1>1, <1>3, <2>2 DEF CoverageGaps, W
    <3>2. CASE p \in {<<start, d - 1>> : d \in {e \in W : IsFirstDay(e, W) /\ e - start > MaxBoundaryLag}}
      <4>1. PICK d \in D : p = <<start, d - 1>> /\ \A e \in D : d <= e
        BY <1>1, <3>2 DEF IsFirstDay
      <4>2. d \in Int /\ d <= end /\ p[1] = start /\ p[2] = d - 1
        BY <4>1, <1>1 DEF W
      <4> QED BY <4>1, <4>2, <1>1
    <3>3. CASE p \in {<<d + 1, end>> : d \in {e \in W : IsLastDay(e, W) /\ e < end}}
      <4>1. PICK d \in D : p = <<d + 1, end>> /\ \A e \in D : e <= d
        BY <1>1, <3>3 DEF IsLastDay
      <4>2. d \in Int /\ start <= d /\ p[1] = d + 1 /\ p[2] = end
        BY <4>1, <1>1 DEF W
      <4> QED BY <4>1, <4>2, <1>1
    <3>4. CASE p \in {<<q[1] + 1, q[2] - 1>> : q \in SuspiciousGaps(W)}
      <4>1. PICK q \in D \X D : p = <<q[1] + 1, q[2] - 1>> /\ \A e \in D : ~(q[1] < e /\ e < q[2])
        BY <1>1, <3>4 DEF SuspiciousGaps
      <4>2. q[1] \in Int /\ q[2] \in Int /\ start <= q[1] /\ q[2] <= end /\ p[1] = q[1] + 1 /\ p[2] = q[2] - 1
        BY <4>1, <1>1 DEF W
      <4> QED BY <4>1, <4>2, <1>1
    <3> QED BY <3>1, <3>2, <3>3, <3>4
  <2> QED BY <2>1, <2>2
<1>4. \A e \in Asked(D, r) : e \in start..end /\ e \notin D
  BY <1>2, <1>3
<1> QED BY <1>4 DEF start, end

\* A whole window is a complete history.
LEMMA WindowIsOk ==
    ASSUME NEW end \in Int
    PROVE  LET W == WindowStart(end)..end IN CoverageOk(W, W, WindowStart(end), end)
<1> DEFINE start == WindowStart(end)
           W == start..end
<1>1. start \in Int /\ start <= end /\ end - start = YearLength
  BY CoverageAssumption DEF WindowStart
<1> HIDE DEF start
<1>2. Cardinality(W) = end - start + 1
  BY <1>1, FS_Interval
<1>3. Cardinality(W) >= MinBars
  BY <1>1, <1>2, CoverageAssumption
<1>4. SuspiciousGaps(W) = {}
  <2> SUFFICES ASSUME NEW p \in W \X W, p[2] - p[1] > MaxSessionGap, \A d \in W : ~(p[1] < d /\ d < p[2])
               PROVE  FALSE
    BY DEF SuspiciousGaps
  <2>1. p[1] \in Int /\ p[2] \in Int /\ p[1] + 1 < p[2] /\ p[1] + 1 \in W /\ p[1] < p[1] + 1
    BY <1>1, CoverageAssumption
  <2> QED BY <2>1
<1>5. end \in W /\ start \in W /\ start - start <= MaxBoundaryLag
  BY <1>1, CoverageAssumption
<1>6. CoverageOk(W, W, start, end)
  <2>1. \A d \in W : start <= d /\ d <= end
    BY <1>1
  <2> HIDE DEF W
  <2> QED BY <1>3, <1>4, <1>5, <2>1 DEF CoverageOk
<1> QED BY <1>6 DEF start

\* What is fetched completes the year, or there is a reason it does not.
LEMMA FetchCompletes ==
    ASSUME NEW r \in Memory, ~Reason(r)
    PROVE  CompletedBy(r, Asked(Stored(r, "raw"), r), Asked(Stored(r, "qfq"), r))
<1>1. r.asOf \in Int /\ Start(r) = WindowStart(r.asOf)
  BY DEF Memory, Start
<1>2. ASSUME NEW t \in Histories
      PROVE  LET D == Stored(r, t)
                 A == Asked(D, r)
             IN  A \cap D = {} /\ D \cup A = Start(r)..r.asOf
  <2> DEFINE D == Stored(r, t)
             A == Asked(D, r)
  <2>1. D \subseteq Int
    BY StoredTyped DEF Tables, Histories
  <2>2. Start(r) \in Int
    BY <1>1, CoverageAssumption DEF WindowStart
  <2>3. \A d \in D : Start(r) <= d /\ d <= r.asOf
    BY <1>1, <2>1, <2>2 DEF Reason, Stray
  <2>4. A \cap D = {} /\ A \subseteq Start(r)..r.asOf
    BY <1>1, <2>1, <2>3, AskedIsMissing
  <2>5. \A d \in Start(r)..r.asOf : d \in D \/ d \in A
    BY DEF Reason, SmallHole
  <2>6. D \subseteq Start(r)..r.asOf
    BY <1>1, <2>1, <2>2, <2>3
  <2> HIDE DEF D, A
  <2>7. D \cup A = Start(r)..r.asOf
    BY <2>4, <2>5, <2>6
  <2> QED BY <2>4, <2>7 DEF D, A
<1>3. CoverageOk(Start(r)..r.asOf, Start(r)..r.asOf, Start(r), r.asOf)
  BY <1>1, WindowIsOk
<1> QED BY <1>2, <1>3 DEF CompletedBy, Histories

LEMMA ReceivedForReason == \A r \in Memory : RefusedFor(Received(r))
<1> SUFFICES ASSUME NEW r \in Memory PROVE RefusedFor(Received(r))
  OBVIOUS
<1>1. CASE Received(r) = Refused(r) /\ r.op \in {"REENTER", "SYNC"} /\ r.seen = "absent"
  <2>1. Refused(r).op = r.op /\ Refused(r).seen = r.seen
    BY DEF Refused, Memory
  <2> QED BY <1>1, <2>1 DEF RefusedFor, Reason
<1>2. ASSUME NEW pc \in {"watchlist", "snapshot"} PROVE [r EXCEPT !.pc = pc].pc # "audit"
  BY <1>2 DEF Memory
<1>3. Verdict("IDEMPOTENT").outcome # "FAILED"
  BY DEF Verdict, Fresh
<1>4. \/ Received(r) = Refused(r) /\ r.op \in {"REENTER", "SYNC"} /\ r.seen = "absent"
      \/ Received(r) = Verdict("IDEMPOTENT")
      \/ \E pc \in {"watchlist", "snapshot"} : Received(r) = [r EXCEPT !.pc = pc]
  BY DEF Received
<1> QED BY <1>1, <1>2, <1>3, <1>4 DEF RefusedFor

LEMMA LoadedForReason == \A r \in Memory, t \in Tables : r.pc # "audit" => RefusedFor(Loaded(r, t))
<1> SUFFICES ASSUME NEW r \in Memory, NEW t \in Tables, r.pc # "audit" PROVE RefusedFor(Loaded(r, t))
  OBVIOUS
<1>1. CASE Loaded(r, t) = Refused(r) /\ t \in Histories /\ \E d \in Stored(r, t) : d > r.asOf
  <2>1. Stored(Refused(r), t) = Stored(r, t) /\ Refused(r).asOf = r.asOf
    BY DEF Refused, Memory, Stored
  <2> QED BY <1>1, <2>1 DEF RefusedFor, Reason, Stray
<1>2. [r EXCEPT !.pc = "decide"].pc # "audit"
  BY DEF Memory
<1>3. \/ Loaded(r, t) = Refused(r) /\ t \in Histories /\ \E d \in Stored(r, t) : d > r.asOf
      \/ Loaded(r, t) = [r EXCEPT !.pc = "decide"]
      \/ Loaded(r, t) = r
  BY DEF Loaded
<1> QED BY <1>1, <1>2, <1>3 DEF RefusedFor

LEMMA OnwardForReason == \A r \in Memory : RefusedFor(Onward(r))
<1> SUFFICES ASSUME NEW r \in Memory PROVE RefusedFor(Onward(r))
  OBVIOUS
<1>1. \/ \E pc \in {"clear", "read", "validate", "watchlist", "plan"} : Onward(r) = [r EXCEPT !.pc = pc]
      \/ Onward(r) \in {Verdict("SUCCESS"), Ended}
  BY DEF Onward
<1>2. ASSUME NEW pc \in {"clear", "read", "validate", "watchlist", "plan"}
      PROVE  [r EXCEPT !.pc = pc].pc # "audit"
  BY <1>2 DEF Memory
<1>3. Verdict("SUCCESS").outcome # "FAILED" /\ Ended.pc # "audit"
  BY DEF Verdict, Ended, Fresh
<1> QED BY <1>1, <1>2, <1>3 DEF RefusedFor

LEMMA DecidedForReason == \A r \in Memory : RefusedFor(Decided(r))
<1> SUFFICES ASSUME NEW r \in Memory PROVE RefusedFor(Decided(r))
  OBVIOUS
<1> DEFINE next == [r EXCEPT !.got = Repair(r), !.todo = Written(Repair(r), r.op), !.validates = ToValidate(r)]
<1>1. next \in Memory
  BY RepairTyped DEF Memory
<1> HIDE DEF next
<1>2. CASE Decided(r) = Refused(r) /\ ~Skips(r) /\ ~CompletedBy(r, Fetched(r, "raw"), Fetched(r, "qfq"))
  <2>1. Reason(r)
    BY <1>2, FetchCompletes DEF Fetched
  <2>2. \A t \in Histories : Stored(Refused(r), t) = Stored(r, t)
    BY DEF Refused, Memory, Stored
  <2>3. Refused(r).asOf = r.asOf /\ Refused(r).op = r.op /\ Refused(r).seen = r.seen
    BY DEF Refused, Memory
  <2>4. Start(Refused(r)) = Start(r) /\ \A D : Asked(D, Refused(r)) = Asked(D, r)
    BY <2>3 DEF Start, Asked
  <2>5. Reason(Refused(r))
    BY <2>1, <2>2, <2>3, <2>4 DEF Reason, Stray, SmallHole
  <2> QED BY <1>2, <2>5 DEF RefusedFor
<1>3. \/ Decided(r) = Refused(r) /\ ~Skips(r) /\ ~CompletedBy(r, Fetched(r, "raw"), Fetched(r, "qfq"))
      \/ Decided(r) \in {Verdict("IDEMPOTENT"), Onward(next)}
  BY DEF Decided, next
<1>4. Verdict("IDEMPOTENT").outcome # "FAILED"
  BY DEF Verdict, Fresh
<1> QED BY <1>1, <1>2, <1>3, <1>4, OnwardForReason DEF RefusedFor

LEMMA RaisedForReason == /\ \A c \in Commands : RefusedFor(Raised(c))
                         /\ RefusedFor(Ended) /\ RefusedFor(Verdict("SUCCESS"))
  BY DEF RefusedFor, Raised, Ended, Verdict, Fresh

LEMMA SetForReason ==
    ASSUME TypeOK, RefusedOnlyWithReason, NEW p \in Writers, NEW r, Set(p, r),
           p \in Commands => RefusedFor(r)
    PROVE  RefusedOnlyWithReason'
<1>1. \A c \in Commands : RefusedFor(run[c])
  BY DEF RefusedOnlyWithReason, RefusedFor, Reason, Stray
<1>2. \A c \in Commands : RefusedFor(run'[c])
  BY <1>1, Members DEF Set, TypeOK
<1> QED BY <1>2 DEF RefusedOnlyWithReason, RefusedFor, Reason, Stray

LEMMA StepForReason == TypeOK /\ RefusedOnlyWithReason /\ [Next]_vars => RefusedOnlyWithReason'
<1> SUFFICES ASSUME TypeOK, RefusedOnlyWithReason, [Next]_vars PROVE RefusedOnlyWithReason'
  OBVIOUS
<1>1. \A p \in Writers : run[p] \in Memory /\ Ready(run[p])
  BY DEF TypeOK, Memories
<1>2. ASSUME NEW c \in Commands, CommandStep(c) PROVE RefusedOnlyWithReason'
  <2>1. c \in Writers /\ run[c] \in Memory
    BY <1>1, Members
  <2>2. CASE Receive(c)
    <3>1. PICK op \in Ops, s \in Named :
            Set(c, Received([run[c] EXCEPT !.op = op, !.symbol = s, !.seen = watch[s]]))
      BY <2>2 DEF Receive
    <3> DEFINE r == [run[c] EXCEPT !.op = op, !.symbol = s, !.seen = watch[s]]
    <3>2. s \in Names /\ watch[s] \in {"absent", "on", "off"}
      BY HoldingsAssumption DEF TypeOK, Names
    <3>3. r \in Memory
      BY <2>1, <3>2 DEF Memory
    <3> HIDE DEF r
    <3> QED BY <2>1, <3>1, <3>3, ReceivedForReason, SetForReason DEF r
  <2>3. CASE Snapshot(c)
    <3>1. \A todo, got : [run[c] EXCEPT !.pc = "load", !.asOf = today, !.got["latest"] = got,
                                       !.todo = todo].pc = "load"
      BY <2>1 DEF Memory
    <3>2. PICK todo, got :
            Set(c, [run[c] EXCEPT !.pc = "load", !.asOf = today, !.got["latest"] = got, !.todo = todo])
      BY <2>3 DEF Snapshot
    <3> QED BY <2>1, <3>1, <3>2, SetForReason DEF RefusedFor
  <2>4. CASE Load(c)
    <3> DEFINE t == Head(run[c].todo)
               r == [run[c] EXCEPT !.cache[t] = sheet[t], !.todo = Tail(@)]
    <3>1. run[c].todo \in Queues /\ run[c].todo # << >>
      BY <1>1, <2>1, <2>4 DEF Load, Ready, Memory
    <3>2. t \in Tables /\ Tail(run[c].todo) \in Queues
      BY <3>1, HeadOff
    <3> HIDE DEF t
    <3>3. r \in Memory /\ r.pc = "load"
      BY <2>1, <2>4, <3>2 DEF TypeOK, Memory, Load
    <3> HIDE DEF r
    <3> QED BY <2>1, <2>4, <3>2, <3>3, LoadedForReason, SetForReason DEF Load, r, t
  <2>5. CASE Decide(c)
    BY <2>1, <2>5, DecidedForReason, SetForReason DEF Decide
  <2>6. CASE WriteWatchlist(c)
    BY <2>1, <2>6, RaisedForReason, SetForReason DEF WriteWatchlist
  <2>7. CASE Audit(c)
    BY <2>1, <2>7, RaisedForReason, SetForReason DEF Audit
  <2> QED BY <1>2, <2>2, <2>3, <2>4, <2>5, <2>6, <2>7 DEF CommandStep
<1>3. ASSUME NEW p \in Pipelines, PipelineStep(p) PROVE RefusedOnlyWithReason'
  <2>1. \E r : Set(p, r)
    BY <1>3 DEF PipelineStep, StartPipeline, Read, PlanRefresh
  <2> QED BY <2>1, Members, HoldingsAssumption, SetForReason
<1>4. ASSUME NEW p \in Writers, Clear(p) \/ Put(p) \/ AppendValidation(p) \/ CallFails(p) \/ Die(p)
      PROVE  RefusedOnlyWithReason'
  <2>1. CASE Clear(p)
    <3>1. [run[p] EXCEPT !.pc = "put"].pc # "audit"
      BY <1>1 DEF Memory
    <3> QED BY <2>1, <3>1, RaisedForReason, SetForReason DEF Clear, RefusedFor
  <2>2. CASE Put(p)
    <3> DEFINE t == Head(run[p].todo)
               r == [run[p] EXCEPT !.todo = Tail(@), !.cache[t] = {}, !.got[t] = {}]
    <3>1. run[p].todo \in Queues /\ run[p].todo # << >>
      BY <1>1, <2>2 DEF Put, Ready, Memory
    <3>2. t \in Tables /\ Tail(run[p].todo) \in Queues
      BY <3>1, HeadOff
    <3> HIDE DEF t
    <3>3. r \in Memory
      BY <1>1, <3>2 DEF Memory
    <3> HIDE DEF r
    <3> QED BY <2>2, <3>3, RaisedForReason, OnwardForReason, SetForReason DEF Put, r, t
  <2>3. CASE AppendValidation(p)
    <3> DEFINE r == [run[p] EXCEPT !.validates = {}]
    <3>1. r \in Memory
      BY <1>1 DEF Memory
    <3> HIDE DEF r
    <3> QED BY <2>3, <3>1, RaisedForReason, OnwardForReason, SetForReason DEF AppendValidation, r
  <2>4. CASE CallFails(p)
    BY <2>4, RaisedForReason, SetForReason DEF CallFails
  <2>5. CASE Die(p)
    BY <2>5, RaisedForReason, SetForReason DEF Die
  <2> QED BY <1>4, <2>1, <2>2, <2>3, <2>4, <2>5
<1>5. CASE NextSession \/ UNCHANGED vars
  <2>1. run' = run
    BY <1>5 DEF NextSession, vars
  <2>2. \A c \in Commands : RefusedFor(run[c])
    BY DEF RefusedOnlyWithReason, RefusedFor, Reason, Stray
  <2> QED BY <2>1, <2>2 DEF RefusedOnlyWithReason, RefusedFor, Reason, Stray
<1> QED BY <1>2, <1>3, <1>4, <1>5 DEF Next

\* Whatever interrupted it or a writer before it, and however writers overlap, a
\* command that meets no fault of its own is refused only for a reason in the sheets.
THEOREM RefusalHasReason == Spec => []RefusedOnlyWithReason
<1>1. Init => RefusedOnlyWithReason
  BY Members DEF Init, RefusedOnlyWithReason, Fresh
<1> QED BY <1>1, StepForReason, TypeCorrect, PTL DEF Spec

-----------------------------------------------------------------------------
(* What a writer knows, kept apart from the others.                        *)

LEMMA NotBoth == /\ \A p \in Pipelines : p \notin Commands
                 /\ \A p \in Writers : p \in Commands \/ p \in Pipelines
  BY HoldingsAssumption DEF Writers

LEMMA EndSound ==
    ASSUME NEW p \in Writers, NEW tables, NEW rows
    PROVE  /\ Sound(p, Fresh, tables, rows) /\ Sound(p, Ended, tables, rows)
           /\ Sound(p, Raised(p), tables, rows)
           /\ \A outcome \in {"SUCCESS", "FAILED", "IDEMPOTENT"} :
                 p \in Commands => Sound(p, Verdict(outcome), tables, rows)
<1>1. ASSUME NEW r, r.pc \in {"idle", "done", "audit"}, r.validates = {}, r.op = "-",
             r.pc = "idle" => r = Fresh, r.pc = "done" => r = Ended
      PROVE  Sound(p, r, tables, rows)
  <2>1. Mirrored(p, r) = {}
    BY <1>1 DEF Mirrored
  <2> QED BY <1>1, <2>1 DEF Sound, InOrder, NoneYet, Ops
<1>2. Sound(p, Fresh, tables, rows)
  <2>1. Fresh.pc = "idle" /\ Fresh.validates = {} /\ Fresh.op = "-"
    BY DEF Fresh
  <2> QED BY <1>1, <2>1
<1>3. Sound(p, Ended, tables, rows)
  <2>1. Ended.pc = "done" /\ Ended.validates = {} /\ Ended.op = "-"
    BY DEF Ended, Fresh
  <2> QED BY <1>1, <2>1
<1>4. ASSUME NEW outcome PROVE Sound(p, Verdict(outcome), tables, rows)
  <2>1. Verdict(outcome).pc = "audit" /\ Verdict(outcome).validates = {} /\ Verdict(outcome).op = "-"
    BY DEF Verdict, Fresh
  <2> QED BY <1>1, <2>1
<1>5. Sound(p, Raised(p), tables, rows)
  <2> DEFINE r == [Verdict("FAILED") EXCEPT !.faulty = TRUE]
  <2>1. r.pc = "audit" /\ r.validates = {} /\ r.op = "-"
    BY DEF Verdict, Fresh
  <2> HIDE DEF r
  <2>2. Sound(p, r, tables, rows)
    BY <1>1, <2>1
  <2>3. Raised(p) = r \/ Raised(p) = Ended
    BY DEF Raised, r
  <2> QED BY <1>3, <2>2, <2>3
<1> QED BY <1>2, <1>3, <1>4, <1>5

\* A writer that another one is kept apart from has nothing to lose by its steps.
LEMMA QuietOthers ==
    ASSUME TypeOK, ApartInv, Serialized, NEW p \in Writers, NEW r, Set(p, r),
           MayStart(p) \/ ~Idle(p), Sound(p, r, sheet', validation')
    PROVE  OneWriter' /\ \A q \in Writers : Sound(q, run'[q], sheet', validation')
<1>1. \A q \in Writers \ {p} : Idle(q)
  BY DEF ApartInv, OneWriter, MayStart
<1>2. run'[p] = r /\ \A q \in Writers \ {p} : run'[q] = run[q]
  BY DEF Set, TypeOK
<1>3. \A q \in Writers \ {p} : Idle(q)'
  BY <1>1, <1>2 DEF Idle
<1>4. OneWriter'
  BY <1>3 DEF OneWriter
<1>5. ASSUME NEW q \in Writers \ {p} PROVE Sound(q, run'[q], sheet', validation')
  <2>1. run[q] \in {Fresh, Ended}
    BY <1>1 DEF ApartInv, Sound, InOrder, Idle
  <2>2. /\ \A tables, rows : Sound(q, Fresh, tables, rows)
        /\ \A tables, rows : Sound(q, Ended, tables, rows)
    BY EndSound
  <2> QED BY <1>2, <2>1, <2>2
<1> QED BY <1>2, <1>4, <1>5

LEMMA ApartStep ==
    ASSUME TypeOK, ApartInv, Serialized, NEW p \in Writers, NEW r, Set(p, r),
           MayStart(p) \/ ~Idle(p), Sound(p, r, sheet', validation'), UNCHANGED validation
    PROVE  ApartInv'
<1>1. CommandsValidateOnce'
  BY DEF ApartInv, CommandsValidateOnce
<1> QED BY <1>1, QuietOthers DEF ApartInv

\* The fields a step leaves alone are all the promise rests on.
LEMMA RepairedSame ==
    ASSUME NEW r, NEW s, NEW tables, NEW after, NEW rows, NEW later,
           Repaired(r, tables, rows),
           s.symbol = r.symbol, s.asOf = r.asOf,
           \A t \in Tables : InTheEnd(s, t, after) = InTheEnd(r, t, tables),
           \A name, d : Noted(rows, name, d) => Noted(later, name, d),
           r.symbol \in r.validates => s.symbol \in s.validates \/ Noted(later, r.symbol, r.asOf)
    PROVE  Repaired(s, after, later)
<1>1. Start(s) = Start(r)
  BY DEF Start
<1>2. \A t \in Tables : DaysOf(InTheEnd(s, t, after), s.symbol) = DaysOf(InTheEnd(r, t, tables), r.symbol)
  OBVIOUS
<1>3. {"raw", "qfq", "latest"} \subseteq Tables
  BY DEF Tables
<1> QED BY <1>1, <1>2, <1>3 DEF Repaired

LEMMA MovedSame ==
    ASSUME NEW r \in Memory, NEW pc \in Stages
    PROVE  LET s == [r EXCEPT !.pc = pc]
           IN  /\ s.pc = pc /\ s.op = r.op /\ s.symbol = r.symbol /\ s.asOf = r.asOf /\ s.seen = r.seen
               /\ s.cache = r.cache /\ s.todo = r.todo /\ s.got = r.got /\ s.validates = r.validates
               /\ \A t \in Tables : Content(s, t) = Content(r, t)
               /\ \A t \in Tables : \A tables : InTheEnd(s, t, tables) = InTheEnd(r, t, tables)
               /\ \A tables, rows : Repaired(r, tables, rows) => Repaired(s, tables, rows)
               /\ \A rows : NoneYet(r, rows) => NoneYet(s, rows)
<1> DEFINE s == [r EXCEPT !.pc = pc]
<1>1. /\ s.pc = pc /\ s.op = r.op /\ s.symbol = r.symbol /\ s.asOf = r.asOf /\ s.seen = r.seen
      /\ s.cache = r.cache /\ s.todo = r.todo /\ s.got = r.got /\ s.validates = r.validates
  BY DEF Memory
<1> HIDE DEF s
<1>2. \A t \in Tables : Content(s, t) = Content(r, t)
  BY <1>1 DEF Content
<1>3. \A t \in Tables : \A tables : InTheEnd(s, t, tables) = InTheEnd(r, t, tables)
  BY <1>1, <1>2 DEF InTheEnd
<1>4. \A tables, rows : Repaired(r, tables, rows) => Repaired(s, tables, rows)
  BY <1>1, <1>3, RepairedSame
<1>5. \A rows : NoneYet(r, rows) => NoneYet(s, rows)
  BY <1>1 DEF NoneYet
<1> QED BY <1>1, <1>2, <1>3, <1>4, <1>5 DEF s

\* The next step is taken with what the last one left.
LEMMA OnwardSound ==
    ASSUME NEW p \in Writers, NEW r \in Memory, NEW tables, NEW rows,
           p \in Pipelines => r.op \notin Ops,
           p \in Commands => /\ r.op \in Ops \ {"CLOSE"} /\ NoneYet(r, rows)
                             /\ \A t \in Pending(r.todo) : r.cache[t] = tables[t]
                             /\ r.op \in {"ADD", "REENTER"} => Repaired(r, tables, rows)
    PROVE  Sound(p, Onward(r), tables, rows)
<1> DEFINE to(pc) == [r EXCEPT !.pc = pc]
<1>1. CASE p \in Pipelines
  <2>1. \/ \E pc \in {"read", "validate", "plan"} : Onward(r) = to(pc)
        \/ Onward(r) = Ended
    BY <1>1 DEF Onward
  <2>2. ASSUME NEW pc \in {"read", "validate", "plan"} PROVE Sound(p, to(pc), tables, rows)
    <3>1. pc \in Stages
      BY <2>2 DEF Stages
    <3>2. to(pc).pc = pc /\ to(pc).op = r.op
      BY <3>1, MovedSame
    <3> HIDE DEF to
    <3>3. Mirrored(p, to(pc)) = {}
      BY <2>2, <3>2 DEF Mirrored
    <3> QED BY <1>1, <2>2, <3>2, <3>3, NotBoth DEF Sound, InOrder
  <2> QED BY <2>1, <2>2, EndSound
<1>2. CASE p \in Commands
  <2>1. \/ r.todo # << >> /\ Onward(r) = to("clear")
        \/ r.todo = << >> /\ Onward(r) = to("validate")
        \/ r.todo = << >> /\ r.validates = {} /\ r.op # "SYNC" /\ Onward(r) = to("watchlist")
        \/ Onward(r) = Verdict("SUCCESS")
    BY <1>2 DEF Onward
  <2>2. ASSUME NEW pc \in {"clear", "validate", "watchlist"},
               pc \in {"validate", "watchlist"} => r.todo = << >>,
               pc = "watchlist" => r.validates = {} /\ r.op # "SYNC"
        PROVE  Sound(p, to(pc), tables, rows)
    <3>1. pc \in Stages
      BY <2>2 DEF Stages
    <3>2. /\ to(pc).pc = pc /\ to(pc).op = r.op /\ to(pc).cache = r.cache /\ to(pc).todo = r.todo
          /\ to(pc).validates = r.validates
      BY <3>1, MovedSame
    <3>3. r.op \in {"ADD", "REENTER"} => Repaired(to(pc), tables, rows)
      BY <1>2, <3>1, MovedSame
    <3>4. NoneYet(to(pc), rows)
      BY <1>2, <3>1, MovedSame
    <3> HIDE DEF to
    <3>5. \A t \in Mirrored(p, to(pc)) : to(pc).cache[t] = tables[t]
      BY <1>2, <2>2, <3>2 DEF Mirrored
    <3>6. InOrder(p, to(pc))
      BY <1>2, <2>2, <3>2, NotBoth DEF InOrder
    <3> QED BY <3>2, <3>3, <3>4, <3>5, <3>6 DEF Sound
  <2> QED BY <1>2, <2>1, <2>2, EndSound
<1> QED BY <1>1, <1>2, NotBoth

LEMMA Current ==
    ASSUME TypeOK, ApartInv, NEW p \in Writers
    PROVE  run[p] \in Memory /\ Ready(run[p]) /\ Sound(p, run[p], sheet, validation)
  BY DEF TypeOK, Memories, ApartInv

LEMMA ReceiveApart ==
    ASSUME TypeOK, ApartInv, Serialized, NEW c \in Commands, Receive(c)
    PROVE  ApartInv'
<1>1. c \in Writers /\ run[c] \in Memory /\ run[c] = Fresh
  BY Members, Current DEF Receive, MayStart, Sound, InOrder
<1>2. PICK op \in Ops, s \in Named :
        Set(c, Received([run[c] EXCEPT !.op = op, !.symbol = s, !.seen = watch[s]]))
  BY DEF Receive
<1> DEFINE r == [run[c] EXCEPT !.op = op, !.symbol = s, !.seen = watch[s]]
<1>3. s \in Names /\ watch[s] \in {"absent", "on", "off"}
  BY HoldingsAssumption DEF TypeOK, Names
<1>4. r \in Memory /\ r.op = op /\ r.todo = << >> /\ r.validates = {}
  <2>1. r.op = op /\ r.todo = run[c].todo /\ r.validates = run[c].validates /\ r \in Memory
    BY <1>1, <1>3 DEF Memory
  <2>2. run[c].todo = << >> /\ run[c].validates = {}
    BY <1>1 DEF Fresh
  <2> QED BY <2>1, <2>2
<1> HIDE DEF r
<1>5. Sound(c, Received(r), sheet, validation)
  <2>1. CASE Received(r) = Verdict("IDEMPOTENT")
    BY <1>1, <2>1, EndSound
  <2>2. CASE Received(r) = Refused(r)
    <3>1. Refused(r).pc = "audit" /\ Refused(r).validates = {}
      BY <1>4 DEF Refused, Memory
    <3>2. Mirrored(c, Refused(r)) = {}
      BY <3>1 DEF Mirrored
    <3> QED BY <2>2, <3>1, <3>2, NotBoth DEF Sound, InOrder, NoneYet
  <2>3. ASSUME NEW pc \in {"watchlist", "snapshot"}, Received(r) = [r EXCEPT !.pc = pc],
               pc = "watchlist" => op = "CLOSE", pc = "snapshot" => op # "CLOSE"
        PROVE  Sound(c, Received(r), sheet, validation)
    <3> DEFINE q == [r EXCEPT !.pc = pc]
    <3>1. pc \in Stages
      BY <2>3 DEF Stages
    <3>2. q.pc = pc /\ q.op = op /\ q.validates = {} /\ q.todo = << >>
      BY <1>4, <3>1, MovedSame
    <3> HIDE DEF q
    <3>3. Mirrored(c, q) = {}
      BY <2>3, <3>2 DEF Mirrored
    <3>4. InOrder(c, q)
      BY <2>3, <3>2, NotBoth DEF InOrder, Ops
    <3>5. ~(q.op \in {"ADD", "REENTER"} /\ q.pc \in {"clear", "put", "validate", "watchlist"})
      BY <2>3, <3>2
    <3>6. Sound(c, q, sheet, validation)
      BY <3>2, <3>3, <3>4, <3>5 DEF Sound, NoneYet
    <3> QED BY <2>3, <3>6 DEF q
  <2>4. \/ Received(r) \in {Verdict("IDEMPOTENT"), Refused(r)}
        \/ Received(r) = [r EXCEPT !.pc = "watchlist"] /\ op = "CLOSE"
        \/ Received(r) = [r EXCEPT !.pc = "snapshot"] /\ op # "CLOSE"
    <3>1. r.op = op /\ (r.seen = "on" \/ r.seen # "on")
      BY <1>4
    <3> QED BY <3>1 DEF Received
  <2> QED BY <2>1, <2>2, <2>3, <2>4
<1> QED BY <1>1, <1>2, <1>5, ApartStep DEF r, Receive

LEMMA SnapshotApart ==
    ASSUME TypeOK, ApartInv, Serialized, NEW c \in Commands, Snapshot(c)
    PROVE  ApartInv'
<1>1. c \in Writers /\ run[c] \in Memory /\ run[c].op \in Ops \ {"CLOSE"} /\ run[c].validates = {}
  BY Members, Current DEF Snapshot, Sound, InOrder
<1>2. PICK status \in {"VERIFIED", "REVIEW"} :
        Set(c, [run[c] EXCEPT !.pc = "load", !.asOf = today,
                  !.got["latest"] = {Row(run[c].symbol, today, status)},
                  !.todo = IF run[c].op = "SYNC" THEN <<"raw", "qfq">> ELSE <<"raw", "qfq", "latest">>])
  BY DEF Snapshot
<1> DEFINE todo == IF run[c].op = "SYNC" THEN <<"raw", "qfq">> ELSE <<"raw", "qfq", "latest">>
           quote == {Row(run[c].symbol, today, status)}
           r == [run[c] EXCEPT !.pc = "load", !.asOf = today, !.got["latest"] = quote, !.todo = todo]
<1>3. Pending(todo) = Reads(run[c].op)
  <2>1. Pending(<<"raw", "qfq">>) = Histories /\ Pending(<<"raw", "qfq", "latest">>) = Tables
    BY DEF Pending, Histories, Tables
  <2> QED BY <2>1 DEF Reads
<1> HIDE DEF todo
<1>4. /\ r.pc = "load" /\ r.op = run[c].op /\ r.symbol = run[c].symbol /\ r.asOf = today
      /\ r.todo = todo /\ r.validates = {} /\ r.got["latest"] = quote
  BY <1>1 DEF Memory, Tables
<1>5. Quoted(r)
  <2>1. \E x \in quote : x.symbol = run[c].symbol /\ x.day = today
    BY DEF Row
  <2> HIDE DEF r, quote
  <2> QED BY <1>4, <2>1 DEF Quoted
<1> HIDE DEF r, quote
<1>6. Mirrored(c, r) = {}
  BY <1>3, <1>4 DEF Mirrored
<1>7. InOrder(c, r)
  BY <1>1, <1>4, <1>5, NotBoth DEF InOrder
<1>8. Sound(c, r, sheet, validation)
  BY <1>4, <1>6, <1>7 DEF Sound, NoneYet
<1> QED BY <1>1, <1>2, <1>8, ApartStep DEF r, todo, quote, Snapshot, Idle

LEMMA LoadApart ==
    ASSUME TypeOK, ApartInv, Serialized, NEW c \in Commands, Load(c)
    PROVE  ApartInv'
<1> DEFINE t == Head(run[c].todo)
           r == [run[c] EXCEPT !.cache[t] = sheet[t], !.todo = Tail(@)]
<1>1. /\ c \in Writers /\ run[c] \in Memory /\ run[c].pc = "load"
      /\ run[c].op \in Ops \ {"CLOSE"} /\ run[c].validates = {} /\ Quoted(run[c])
      /\ run[c].todo \in Queues /\ run[c].todo # << >>
      /\ \A u \in Reads(run[c].op) \ Pending(run[c].todo) : run[c].cache[u] = sheet[u]
  <2>1. c \in Writers /\ run[c] \in Memory /\ Ready(run[c]) /\ Sound(c, run[c], sheet, validation)
        /\ run[c].pc = "load"
    BY Members, Current DEF Load
  <2>2. Mirrored(c, run[c]) = Reads(run[c].op) \ Pending(run[c].todo)
    BY <2>1 DEF Mirrored
  <2>3. run[c].todo \in Queues
    BY <2>1 DEF Memory
  <2> QED BY <2>1, <2>2, <2>3 DEF Sound, InOrder, Ready
<1>2. t \in Tables /\ Tail(run[c].todo) \in Queues /\ Pending(Tail(run[c].todo)) = Pending(run[c].todo) \ {t}
  BY <1>1, HeadOff
<1> HIDE DEF t
<1>3. /\ r \in Memory /\ r.pc = "load" /\ r.op = run[c].op /\ r.validates = {} /\ r.todo = Tail(run[c].todo)
      /\ r.got = run[c].got /\ r.symbol = run[c].symbol /\ r.asOf = run[c].asOf
      /\ r.cache[t] = sheet[t] /\ \A u \in Tables \ {t} : r.cache[u] = run[c].cache[u]
  BY <1>1, <1>2 DEF Memory, TypeOK
<1> HIDE DEF r
<1>4. \A u \in Reads(r.op) \ Pending(r.todo) : r.cache[u] = sheet[u]
  <2>1. Reads(r.op) \subseteq Tables
    BY DEF Reads, Tables, Histories
  <2> QED BY <1>1, <1>2, <1>3, <2>1
<1>5. Quoted(r)
  BY <1>1, <1>3 DEF Quoted
<1>6. Sound(c, Loaded(r, t), sheet, validation)
  <2>1. CASE Loaded(r, t) = Refused(r)
    <3>1. Refused(r).pc = "audit" /\ Refused(r).validates = {}
      BY <1>3 DEF Refused, Memory
    <3>2. Mirrored(c, Refused(r)) = {}
      BY <3>1 DEF Mirrored
    <3> QED BY <2>1, <3>1, <3>2, NotBoth DEF Sound, InOrder, NoneYet
  <2>2. CASE r.todo = << >> /\ Loaded(r, t) = [r EXCEPT !.pc = "decide"]
    <3> DEFINE q == [r EXCEPT !.pc = "decide"]
    <3>1. "decide" \in Stages
      BY DEF Stages
    <3>2. /\ q.pc = "decide" /\ q.op = r.op /\ q.validates = r.validates /\ q.got = r.got /\ q.cache = r.cache
          /\ q.symbol = r.symbol /\ q.asOf = r.asOf
      BY <1>3, <3>1, MovedSame
    <3> HIDE DEF q
    <3>3. Pending(r.todo) = {}
      BY <2>2 DEF Pending
    <3>4. Mirrored(c, q) = Reads(r.op)
      BY <3>2 DEF Mirrored
    <3>5. Quoted(q)
      BY <1>5, <3>2 DEF Quoted
    <3>6. InOrder(c, q)
      BY <1>1, <1>3, <3>2, <3>5, NotBoth DEF InOrder
    <3>7. Sound(c, q, sheet, validation)
      BY <1>3, <1>4, <3>2, <3>3, <3>4, <3>6 DEF Sound, NoneYet
    <3> QED BY <2>2, <3>7 DEF q
  <2>3. CASE r.todo # << >> /\ Loaded(r, t) = r
    <3>1. Mirrored(c, r) = Reads(r.op) \ Pending(r.todo)
      BY <1>3 DEF Mirrored
    <3>2. InOrder(c, r)
      BY <1>1, <1>3, <1>5, NotBoth DEF InOrder
    <3> QED BY <1>3, <1>4, <2>3, <3>1, <3>2 DEF Sound, NoneYet
  <2> QED BY <2>1, <2>2, <2>3 DEF Loaded
<1>7. Set(c, Loaded(r, t)) /\ UNCHANGED <<sheet, validation>>
  BY DEF Load, r, t
<1> QED BY <1>1, <1>6, <1>7, ApartStep DEF Idle

LEMMA DecideApart ==
    ASSUME TypeOK, ApartInv, Serialized, NEW c \in Commands, Decide(c)
    PROVE  ApartInv'
<1> DEFINE r == run[c]
           next == [r EXCEPT !.got = Repair(r), !.todo = Written(Repair(r), r.op), !.validates = ToValidate(r)]
<1>1. /\ c \in Writers /\ r \in Memory /\ r.pc = "decide" /\ r.op \in Ops \ {"CLOSE"}
      /\ r.validates = {} /\ Quoted(r) /\ \A t \in Reads(r.op) : r.cache[t] = sheet[t]
  <2>1. c \in Writers /\ r \in Memory /\ Sound(c, r, sheet, validation) /\ r.pc = "decide"
    BY Members, Current DEF Decide
  <2> HIDE DEF r
  <2>2. Mirrored(c, r) = Reads(r.op)
    BY <2>1 DEF Mirrored
  <2> QED BY <2>1, <2>2 DEF Sound, InOrder
<1>2. Set(c, Decided(r)) /\ UNCHANGED <<sheet, validation>>
  BY DEF Decide
<1>3. ~Idle(c)
  BY <1>1 DEF Idle
<1> HIDE DEF r
<1>4. /\ next \in Memory /\ next.op = r.op /\ next.symbol = r.symbol /\ next.asOf = r.asOf /\ next.cache = r.cache
      /\ next.got = Repair(r) /\ next.todo = Written(Repair(r), r.op) /\ next.validates = ToValidate(r)
  BY <1>1, RepairTyped DEF Memory
<1> HIDE DEF next
<1>5. Pending(next.todo) = {t \in Reads(r.op) : Repair(r)[t] # {}}
  BY <1>4, WrittenIsDue
<1>6. NoneYet(next, validation)
  <2>1. Noted(validation, r.symbol, r.asOf) <=> ValidatedAt(r.symbol, r.asOf)
    BY DEF Noted, ValidatedAt
  <2> QED BY <1>4, <2>1 DEF NoneYet, ToValidate
<1>7. ASSUME r.op \in {"ADD", "REENTER"}, Skips(r) \/ CompletedBy(r, Fetched(r, "raw"), Fetched(r, "qfq"))
      PROVE  Repaired(next, sheet, validation)
  <2>1. Reads(r.op) = Tables
    BY <1>7 DEF Reads
  <2>2. ASSUME NEW t \in Histories
        PROVE  DaysOf(InTheEnd(next, t, sheet), r.symbol) = Stored(r, t) \cup Fetched(r, t)
    <3> DEFINE new == HistoryRows({r.symbol}, Fetched(r, t))
    <3>1. t \in Tables /\ t # "latest" /\ Repair(r)[t] = new /\ r.cache[t] = sheet[t] /\ next.op # "QFQ"
      BY <1>1, <1>4, <1>7, <2>1 DEF Repair, Histories, Tables
    <3>2. InTheEnd(next, t, sheet) = r.cache[t] \cup new
      <4>1. CASE new = {}
        <5>1. t \notin Pending(next.todo)
          BY <1>5, <3>1, <4>1
        <5> QED BY <3>1, <4>1, <5>1 DEF InTheEnd
      <4>2. CASE new # {}
        <5>1. t \in Pending(next.todo)
          BY <1>5, <2>1, <3>1, <4>2
        <5> HIDE DEF new
        <5> QED BY <1>4, <3>1, <5>1 DEF InTheEnd, Content, UpsertHistory
      <4> QED BY <4>1, <4>2
    <3>3. DaysOf(new, r.symbol) = Fetched(r, t)
      <4>1. \A d : Row(r.symbol, d, "-").symbol = r.symbol /\ Row(r.symbol, d, "-").day = d
        BY DEF Row
      <4>2. new = {Row(r.symbol, d, "-") : d \in Fetched(r, t)}
        BY DEF HistoryRows
      <4> HIDE DEF new
      <4> QED BY <4>1, <4>2 DEF DaysOf
    <3> HIDE DEF new
    <3>4. DaysOf(r.cache[t] \cup new, r.symbol) = DaysOf(r.cache[t], r.symbol) \cup DaysOf(new, r.symbol)
      BY DEF DaysOf
    <3> QED BY <3>2, <3>3, <3>4 DEF Stored
  <2>3. CoverageOk(Stored(r, "raw") \cup Fetched(r, "raw"), Stored(r, "qfq") \cup Fetched(r, "qfq"), Start(r), r.asOf)
    <3>1. CASE Skips(r)
      <4>1. \A t \in Histories : Stored(r, t) \cup Fetched(r, t) = Stored(r, t)
        BY <3>1 DEF Fetched
      <4> QED BY <3>1, <4>1 DEF Skips, HistoryComplete, Histories
    <3>2. CASE CompletedBy(r, Fetched(r, "raw"), Fetched(r, "qfq"))
      BY <3>2 DEF CompletedBy
    <3> QED BY <1>7, <3>1, <3>2
  <2>4. \E x \in InTheEnd(next, "latest", sheet) : x.symbol = r.symbol /\ x.day = r.asOf
    <3>1. "latest" \in Tables /\ r.cache["latest"] = sheet["latest"]
          /\ Repair(r)["latest"] = IF LatestCurrent(r) THEN {} ELSE r.got["latest"]
      BY <1>1, <2>1 DEF Repair, Tables, Histories
    <3>2. CASE LatestCurrent(r)
      <4>1. "latest" \notin Pending(next.todo)
        BY <1>5, <3>1, <3>2
      <4> QED BY <3>1, <3>2, <4>1 DEF InTheEnd, LatestCurrent
    <3>3. CASE ~LatestCurrent(r)
      <4>1. r.got["latest"] # {} /\ \E x \in r.got["latest"] : x.symbol = r.symbol /\ x.day = r.asOf
        BY <1>1 DEF Quoted
      <4>2. "latest" \in Pending(next.todo)
        BY <1>5, <2>1, <3>1, <3>3, <4>1
      <4>3. r.got["latest"] \subseteq Content(next, "latest")
        BY <1>4, <3>1, <3>3 DEF Content, UpsertLatest
      <4> QED BY <4>1, <4>2, <4>3 DEF InTheEnd
    <3> QED BY <3>2, <3>3
  <2>5. Noted(validation, r.symbol, r.asOf) \/ r.symbol \in next.validates
    BY <1>4, <1>7 DEF ToValidate, Noted, ValidatedAt
  <2>6. Start(next) = Start(r)
    BY <1>4 DEF Start
  <2>7. \A t \in Histories : DaysOf(InTheEnd(next, t, sheet), next.symbol) = Stored(r, t) \cup Fetched(r, t)
    BY <1>4, <2>2
  <2> QED BY <1>4, <2>3, <2>4, <2>5, <2>6, <2>7 DEF Repaired, Histories
<1>8. Sound(c, Decided(r), sheet, validation)
  <2>1. CASE Decided(r) = Verdict("IDEMPOTENT")
    BY <1>1, <2>1, EndSound
  <2>2. CASE Decided(r) = Refused(r)
    <3>1. Refused(r).pc = "audit" /\ Refused(r).validates = {}
      BY <1>1 DEF Refused, Memory
    <3>2. Mirrored(c, Refused(r)) = {}
      BY <3>1 DEF Mirrored
    <3> QED BY <2>2, <3>1, <3>2, NotBoth DEF Sound, InOrder, NoneYet
  <2>3. CASE /\ Decided(r) = Onward(next)
             /\ Skips(r) \/ CompletedBy(r, Fetched(r, "raw"), Fetched(r, "qfq"))
    <3>1. \A t \in Pending(next.todo) : next.cache[t] = sheet[t]
      BY <1>1, <1>4, <1>5
    <3> QED BY <1>1, <1>4, <1>6, <1>7, <2>3, <3>1, NotBoth, OnwardSound
  <2> QED BY <2>1, <2>2, <2>3 DEF Decided, next
<1> QED BY <1>1, <1>2, <1>3, <1>8, ApartStep

LEMMA EndApart ==
    ASSUME TypeOK, ApartInv, Serialized, NEW p \in Writers,
           \/ p \in Commands /\ (WriteWatchlist(p) \/ Audit(p))
           \/ CallFails(p) \/ Die(p)
    PROVE  ApartInv'
<1>1. ~Idle(p) /\ UNCHANGED <<sheet, validation>>
  BY DEF WriteWatchlist, Audit, CallFails, Die, Idle
<1>2. PICK r : Set(p, r) /\ (r = Ended \/ r = Raised(p) \/ (p \in Commands /\ r = Verdict("SUCCESS")))
  BY Zenon DEF WriteWatchlist, Audit, CallFails, Die
<1>3. Sound(p, r, sheet, validation)
  BY <1>2, EndSound
<1> QED BY <1>1, <1>2, <1>3, ApartStep

LEMMA PipelineApart ==
    ASSUME TypeOK, ApartInv, Serialized, NEW p \in Pipelines, PipelineStep(p)
    PROVE  ApartInv'
<1>1. p \in Writers /\ p \notin Commands /\ run[p] \in Memory /\ Ready(run[p]) /\ run[p].op \notin Ops
  BY Members, NotBoth, Current DEF Sound, InOrder
<1>2. CASE StartPipeline(p)
  <2>0. PICK mode \in Modes : \E failed, global, ok, todo, got :
          Set(p, [run[p] EXCEPT !.pc = "read", !.op = mode, !.asOf = today,
                    !.failed = failed, !.global = global, !.validates = ok, !.todo = todo, !.got = got])
    BY <1>2, ZenonT(60) DEF StartPipeline
  <2>1. PICK failed, global, ok, todo, got :
          Set(p, [run[p] EXCEPT !.pc = "read", !.op = mode, !.asOf = today,
                    !.failed = failed, !.global = global, !.validates = ok, !.todo = todo, !.got = got])
    BY <2>0
  <2> DEFINE r == [run[p] EXCEPT !.pc = "read", !.op = mode, !.asOf = today,
                     !.failed = failed, !.global = global, !.validates = ok, !.todo = todo, !.got = got]
  <2>2. r.pc = "read" /\ r.op = mode /\ mode \notin Ops
    BY <1>1, HoldingsAssumption DEF Memory, Ops
  <2> HIDE DEF r
  <2>3. Sound(p, r, sheet, validation)
    <3>1. Mirrored(p, r) = {}
      BY <2>2 DEF Mirrored
    <3> QED BY <1>1, <2>2, <3>1 DEF Sound, InOrder
  <2> QED BY <1>1, <1>2, <2>1, <2>3, ApartStep DEF r, StartPipeline
<1>3. CASE Read(p)
  <2> DEFINE t == Head(run[p].todo)
  <2>1. PICK got : Set(p, [run[p] EXCEPT !.pc = "clear", !.cache[t] = sheet[t], !.got[t] = got])
    BY <1>3 DEF Read
  <2> DEFINE r == [run[p] EXCEPT !.pc = "clear", !.cache[t] = sheet[t], !.got[t] = got]
  <2>2. t \in Tables
    BY <1>1, <1>3, HeadOff DEF Read, Ready, Memory
  <2>3. r.pc = "clear" /\ r.op = run[p].op /\ r.todo = run[p].todo /\ r.cache[t] = sheet[t]
    <3> HIDE DEF t
    <3> QED BY <1>1, <2>2 DEF Memory
  <2>4. Mirrored(p, r) = {t}
    <3> HIDE DEF r
    <3> QED BY <1>1, <2>3 DEF Mirrored
  <2> HIDE DEF r
  <2>5. Sound(p, r, sheet, validation)
    BY <1>1, <2>3, <2>4 DEF Sound, InOrder
  <2> QED BY <1>1, <1>3, <2>1, <2>5, ApartStep DEF r, Read, Idle
<1>4. CASE PlanRefresh(p)
  <2>1. PICK fetched \in SUBSET Refreshable(p) :
          Set(p, Onward([run[p] EXCEPT !.op = "QFQ", !.validates = {},
                            !.todo = IF fetched = {} THEN << >> ELSE <<"qfq">>,
                            !.got["qfq"] = UNION {Series({x.symbol}, x.day) : x \in fetched}]))
    BY <1>4 DEF PlanRefresh
  <2> DEFINE got == UNION {Series({x.symbol}, x.day) : x \in fetched}
             todo == IF fetched = {} THEN << >> ELSE <<"qfq">>
             r == [run[p] EXCEPT !.op = "QFQ", !.validates = {}, !.todo = todo, !.got["qfq"] = got]
  <2>2. got \subseteq Rows
    <3>1. \A x \in fetched : Series({x.symbol}, x.day) \subseteq Rows
      BY SeriesTyped DEF Refreshable, TypeOK, Tables, Rows
    <3> QED BY <3>1
  <2>3. todo \in Queues
    BY DEF Queues, Distinct, Tables
  <2> HIDE DEF got, todo
  <2>4. r \in Memory /\ r.op = "QFQ"
    BY <1>1, <2>2, <2>3 DEF Memory, Tables
  <2> HIDE DEF r
  <2>5. Sound(p, Onward(r), sheet, validation)
    BY <1>1, <2>4, OnwardSound DEF Ops
  <2> QED BY <1>1, <1>4, <2>1, <2>5, ApartStep DEF r, got, todo, PlanRefresh, Idle
<1> QED BY <1>2, <1>3, <1>4 DEF PipelineStep
LEMMA ClearApart ==
    ASSUME TypeOK, ApartInv, Serialized, NEW p \in Writers, Clear(p)
    PROVE  ApartInv'
<1> DEFINE t == Head(run[p].todo)
           r == [run[p] EXCEPT !.pc = "put"]
<1>1. run[p] \in Memory /\ Ready(run[p]) /\ Sound(p, run[p], sheet, validation) /\ run[p].pc = "clear"
  BY Current DEF Clear
<1>2. t \in Tables /\ t \in Pending(run[p].todo) /\ Pending(Tail(run[p].todo)) = Pending(run[p].todo) \ {t}
      /\ Pending(run[p].todo) \subseteq Tables
  BY <1>1, HeadOff DEF Ready, Memory
<1> HIDE DEF t
<1>3. sheet' = [sheet EXCEPT ![t] = {}] /\ UNCHANGED validation
  BY DEF Clear, t
<1>4. "put" \in Stages
  BY DEF Stages
<1>5. /\ r.pc = "put" /\ r.op = run[p].op /\ r.validates = run[p].validates /\ r.todo = run[p].todo
      /\ r.symbol = run[p].symbol /\ r.asOf = run[p].asOf /\ r.cache = run[p].cache
      /\ \A u \in Tables : Content(r, u) = Content(run[p], u)
  BY <1>1, <1>4, MovedSame
<1> HIDE DEF r
<1>6. \A u \in Tables \ {t} : sheet'[u] = sheet[u]
  BY <1>3 DEF TypeOK
<1>7. \A u \in Tables : InTheEnd(r, u, sheet') = InTheEnd(run[p], u, sheet)
  BY <1>2, <1>5, <1>6 DEF InTheEnd
<1>8. Sound(p, r, sheet', validation')
  <2>1. CASE p \in Commands
    <3>1. Mirrored(p, run[p]) = Pending(run[p].todo) /\ Mirrored(p, r) = Pending(run[p].todo) \ {t}
      BY <1>1, <1>2, <1>5, <2>1 DEF Mirrored
    <3>2. \A u \in Mirrored(p, r) : r.cache[u] = sheet'[u]
      BY <1>1, <1>2, <1>5, <1>6, <3>1 DEF Sound
    <3>3. InOrder(p, r) /\ NoneYet(r, validation')
      BY <1>1, <1>3, <1>5, <2>1, NotBoth DEF Sound, InOrder, NoneYet
    <3>4. ASSUME r.op \in {"ADD", "REENTER"} PROVE Repaired(r, sheet', validation')
      <4>1. Repaired(run[p], sheet, validation)
        BY <1>1, <1>5, <2>1, <3>4 DEF Sound
      <4> QED BY <1>3, <1>5, <1>7, <4>1, RepairedSame
    <3> QED BY <3>2, <3>3, <3>4 DEF Sound
  <2>2. CASE p \notin Commands
    <3>1. Mirrored(p, r) = {}
      BY <1>5, <2>2 DEF Mirrored
    <3> QED BY <1>1, <1>5, <2>2, <3>1 DEF Sound, InOrder
  <2> QED BY <2>1, <2>2
<1>9. Sound(p, Raised(p), sheet', validation')
  BY EndSound
<1> QED BY <1>1, <1>3, <1>8, <1>9, ApartStep DEF Clear, r, Idle

LEMMA PutApart ==
    ASSUME TypeOK, ApartInv, Serialized, NEW p \in Writers, Put(p)
    PROVE  ApartInv'
<1> DEFINE t == Head(run[p].todo)
           r == [run[p] EXCEPT !.todo = Tail(@), !.cache[t] = {}, !.got[t] = {}]
<1>1. run[p] \in Memory /\ Ready(run[p]) /\ Sound(p, run[p], sheet, validation) /\ run[p].pc = "put"
  BY Current DEF Put
<1>2. /\ t \in Tables /\ t \in Pending(run[p].todo) /\ Tail(run[p].todo) \in Queues
      /\ Pending(Tail(run[p].todo)) = Pending(run[p].todo) \ {t} /\ Pending(run[p].todo) \subseteq Tables
  BY <1>1, HeadOff DEF Ready, Memory
<1> HIDE DEF t
<1>3. sheet' = [sheet EXCEPT ![t] = Content(run[p], t)] /\ UNCHANGED validation
  BY DEF Put, t
<1>4. /\ r \in Memory /\ r.op = run[p].op /\ r.validates = run[p].validates /\ r.todo = Tail(run[p].todo)
      /\ r.symbol = run[p].symbol /\ r.asOf = run[p].asOf
      /\ \A u \in Tables \ {t} : r.cache[u] = run[p].cache[u] /\ r.got[u] = run[p].got[u]
  BY <1>1, <1>2 DEF Memory
<1> HIDE DEF r
<1>5. /\ \A u \in Tables \ {t} : sheet'[u] = sheet[u] /\ Content(r, u) = Content(run[p], u)
      /\ sheet'[t] = Content(run[p], t)
  BY <1>2, <1>3, <1>4 DEF TypeOK, Content
<1>6. \A u \in Tables : InTheEnd(r, u, sheet') = InTheEnd(run[p], u, sheet)
  BY <1>2, <1>4, <1>5 DEF InTheEnd
<1>7. Sound(p, Onward(r), sheet', validation')
  <2>1. CASE p \in Commands
    <3>1. Mirrored(p, run[p]) = Pending(r.todo)
      BY <1>1, <1>4, <2>1 DEF Mirrored
    <3>2. \A u \in Pending(r.todo) : r.cache[u] = sheet'[u]
      BY <1>1, <1>2, <1>4, <1>5, <3>1 DEF Sound
    <3>3. r.op \in Ops \ {"CLOSE"} /\ NoneYet(r, validation')
      BY <1>1, <1>3, <1>4, <2>1 DEF Sound, InOrder, NoneYet
    <3>4. ASSUME r.op \in {"ADD", "REENTER"} PROVE Repaired(r, sheet', validation')
      <4>1. Repaired(run[p], sheet, validation)
        BY <1>1, <1>4, <2>1, <3>4 DEF Sound
      <4>2. validation' = validation
        BY <1>3
      <4>3. Repaired(r, sheet', validation)
        BY <1>4, <1>6, <4>1, RepairedSame
      <4> QED BY <4>2, <4>3
    <3> QED BY <1>4, <2>1, <3>2, <3>3, <3>4, NotBoth, OnwardSound
  <2>2. CASE p \notin Commands
    <3>1. p \in Pipelines => r.op \notin Ops
      BY <1>1, <1>4 DEF Sound, InOrder
    <3> QED BY <1>4, <2>2, <3>1, OnwardSound
  <2> QED BY <2>1, <2>2
<1>8. Sound(p, Raised(p), sheet', validation')
  BY EndSound
<1> QED BY <1>1, <1>3, <1>7, <1>8, ApartStep DEF Put, r, t, Idle

LEMMA ValidateApart ==
    ASSUME TypeOK, ApartInv, Serialized, NEW p \in Writers, AppendValidation(p)
    PROVE  ApartInv'
<1> DEFINE r == [run[p] EXCEPT !.validates = {}]
           new == {[symbol |-> s, day |-> run[p].asOf, by |-> p] : s \in run[p].validates}
<1>1. run[p] \in Memory /\ Sound(p, run[p], sheet, validation) /\ run[p].pc = "validate"
  BY Current DEF AppendValidation
<1>2. validation' = validation \cup new /\ UNCHANGED sheet
  BY DEF AppendValidation
<1>3. /\ r \in Memory /\ r.op = run[p].op /\ r.validates = {} /\ r.todo = run[p].todo /\ r.symbol = run[p].symbol
      /\ r.asOf = run[p].asOf /\ r.cache = run[p].cache /\ r.got = run[p].got
  BY <1>1 DEF Memory
<1> HIDE DEF r
<1>4. \A s \in run[p].validates : Noted(new, s, run[p].asOf)
  <2> SUFFICES ASSUME NEW s \in run[p].validates PROVE Noted(new, s, run[p].asOf)
    OBVIOUS
  <2> DEFINE v == [symbol |-> s, day |-> run[p].asOf, by |-> p]
  <2>1. v \in new /\ v.symbol = s /\ v.day = run[p].asOf
    OBVIOUS
  <2> QED BY <2>1 DEF Noted
<1>5. \A v \in new : v.symbol \in run[p].validates /\ v.day = run[p].asOf /\ v.by = p
  OBVIOUS
<1> HIDE DEF new
<1>6. \A u \in Tables : InTheEnd(r, u, sheet') = InTheEnd(run[p], u, sheet)
  BY <1>2, <1>3 DEF InTheEnd, Content
<1>7. Sound(p, Onward(r), sheet', validation')
  <2>1. CASE p \in Commands
    <3>1. r.todo = << >> /\ r.op \in Ops \ {"CLOSE"}
      BY <1>1, <1>3, <2>1 DEF Sound, InOrder
    <3>2. Pending(r.todo) = {}
      BY <3>1 DEF Pending
    <3>3. NoneYet(r, validation')
      BY <1>3 DEF NoneYet
    <3>4. ASSUME r.op \in {"ADD", "REENTER"} PROVE Repaired(r, sheet', validation')
      <4>1. Repaired(run[p], sheet, validation)
        BY <1>1, <1>3, <2>1, <3>4 DEF Sound
      <4>2. \A s, d : Noted(validation, s, d) => Noted(validation', s, d)
        BY <1>2 DEF Noted
      <4>3. run[p].symbol \in run[p].validates => Noted(validation', run[p].symbol, run[p].asOf)
        BY <1>2, <1>4 DEF Noted
      <4> QED BY <1>3, <1>6, <4>1, <4>2, <4>3, RepairedSame
    <3> QED BY <1>3, <2>1, <3>1, <3>2, <3>3, <3>4, NotBoth, OnwardSound
  <2>2. CASE p \notin Commands
    <3>1. p \in Pipelines => r.op \notin Ops
      BY <1>1, <1>3 DEF Sound, InOrder
    <3> QED BY <1>3, <2>2, <3>1, OnwardSound
  <2> QED BY <2>1, <2>2
<1>8. Sound(p, Raised(p), sheet', validation')
  BY EndSound
<1>9. CommandsValidateOnce'
  <2> SUFFICES ASSUME NEW v \in validation', NEW w \in validation',
                      v.symbol = w.symbol, v.day = w.day, {v.by, w.by} \subseteq Commands
               PROVE  v.by = w.by
    BY DEF CommandsValidateOnce
  <2>1. ASSUME NEW x \in new, NEW y \in validation, x.symbol = y.symbol, x.day = y.day, x.by \in Commands
        PROVE  FALSE
    <3>1. p \in Commands /\ x.symbol \in run[p].validates /\ x.day = run[p].asOf
      BY <1>5, <2>1
    <3>2. NoneYet(run[p], validation)
      BY <1>1, <3>1 DEF Sound
    <3> QED BY <2>1, <3>1, <3>2 DEF NoneYet, Noted
  <2>2. CASE v \in validation /\ w \in validation
    BY <2>2 DEF ApartInv, CommandsValidateOnce
  <2>3. CASE v \in new /\ w \in new
    BY <1>5, <2>3
  <2> QED BY <1>2, <2>1, <2>2, <2>3
<1>10. PICK q : Set(p, q) /\ (q = Onward(r) \/ q = Raised(p))
  BY DEF AppendValidation, r
<1>11. Sound(p, q, sheet', validation')
  BY <1>7, <1>8, <1>10
<1> QED BY <1>1, <1>9, <1>10, <1>11, QuietOthers DEF ApartInv, Idle

LEMMA InitApart == Init => ApartInv
<1> SUFFICES ASSUME Init PROVE ApartInv
  OBVIOUS
<1>1. \A p \in Writers : run[p] = Fresh
  BY DEF Init
<1>2. OneWriter
  BY <1>1 DEF OneWriter, Idle, Fresh
<1> QED BY <1>1, <1>2, EndSound DEF Init, ApartInv, CommandsValidateOnce

LEMMA StepApart == Serialized /\ TypeOK /\ ApartInv /\ [Next]_vars => ApartInv'
<1> SUFFICES ASSUME Serialized, TypeOK, ApartInv, [Next]_vars PROVE ApartInv'
  OBVIOUS
<1>1. CASE NextSession \/ UNCHANGED vars
  <2>1. UNCHANGED <<run, sheet, validation>>
    BY <1>1 DEF NextSession, vars
  <2> QED BY <2>1 DEF ApartInv, OneWriter, Idle, CommandsValidateOnce
<1>2. ASSUME NEW c \in Commands, CommandStep(c) PROVE ApartInv'
  BY <1>2, Members, ReceiveApart, SnapshotApart, LoadApart, DecideApart, EndApart DEF CommandStep
<1>3. ASSUME NEW p \in Writers, Clear(p) \/ Put(p) \/ AppendValidation(p) \/ CallFails(p) \/ Die(p)
      PROVE  ApartInv'
  BY <1>3, ClearApart, PutApart, ValidateApart, EndApart
<1> QED BY <1>1, <1>2, <1>3, PipelineApart DEF Next

LEMMA Apart == Serialized => (Spec => [](TypeOK /\ ApartInv))
<1> SUFFICES ASSUME Serialized PROVE Spec => [](TypeOK /\ ApartInv)
  OBVIOUS
<1>1. TypeOK /\ ApartInv /\ [Next]_vars => (TypeOK /\ ApartInv)'
  BY StepTypeOK, StepApart
<1> QED BY InitTypeOK, InitApart, <1>1, PTL DEF Spec

\* With the writers kept apart, commands that are retried, refused and killed leave one
\* validation row for a symbol and session.
THEOREM OneValidation == Serialized => (Spec => []CommandsValidateOnce)
<1> SUFFICES ASSUME Serialized PROVE Spec => []CommandsValidateOnce
  OBVIOUS
<1>1. TypeOK /\ ApartInv => CommandsValidateOnce
  BY DEF ApartInv
<1> QED BY Apart, <1>1, PTL

\* With the writers kept apart, a symbol is enabled only with its year, its quote and its
\* validation row in the sheets, whatever failed before.
THEOREM EnabledIsComplete == Serialized => (Spec => EnableIsLast)
<1> SUFFICES ASSUME Serialized PROVE Spec => EnableIsLast
  OBVIOUS
<1> DEFINE Enabled(c, s) ==
      (run[c].pc = "watchlist" /\ run'[c].pc # "watchlist" /\ run[c].symbol = s
            /\ watch[s] # "on" /\ watch'[s] = "on")
         => LET r == run[c]
                D(t) == DaysOf(sheet[t], r.symbol)
            IN  /\ CoverageOk(D("raw"), D("qfq"), Start(r), r.asOf)
                /\ \E x \in sheet["latest"] : x.symbol = r.symbol /\ x.day = r.asOf
                /\ ValidatedAt(r.symbol, r.asOf)
<1>1. TypeOK /\ ApartInv /\ [Next]_vars => [\A c \in Commands, s \in Symbols : Enabled(c, s)]_vars
  <2> SUFFICES ASSUME TypeOK, ApartInv, Next, NEW c \in Commands, NEW s \in Symbols,
                      run[c].pc = "watchlist", run[c].symbol = s, watch[s] # "on", watch'[s] = "on"
               PROVE  Enabled(c, s)
    OBVIOUS
  <2> DEFINE r == run[c]
  <2>1. c \in Writers /\ r \in Memory /\ Sound(c, r, sheet, validation) /\ r.todo = << >> /\ r.validates = {}
    BY Members, Current DEF Sound, InOrder
  <2>2. PICK d \in Commands : WriteWatchlist(d)
    BY DEF Next, CommandStep, PipelineStep, Receive, Snapshot, Load, Decide, Audit, StartPipeline, Read,
       PlanRefresh, Clear, Put, AppendValidation, CallFails, Die, NextSession
  <2>3. d = c
    <3>1. ~Idle(c) /\ ~Idle(d)
      BY <2>2 DEF WriteWatchlist, Idle
    <3> QED BY <2>2, <3>1, Members DEF ApartInv, OneWriter
  <2>4. r.op \in {"ADD", "REENTER"}
    <3>1. r.op # "CLOSE"
      BY <2>2, <2>3 DEF WriteWatchlist, TypeOK
    <3> QED BY <2>1, <3>1 DEF Sound, InOrder, Ops
  <2>5. Repaired(r, sheet, validation)
    BY <2>1, <2>4 DEF Sound
  <2>6. \A t : InTheEnd(r, t, sheet) = sheet[t]
    BY <2>1 DEF InTheEnd, Pending
  <2>7. Noted(validation, r.symbol, r.asOf)
    BY <2>1, <2>5 DEF Repaired
  <2> HIDE DEF r
  <2>8. LET D(t) == DaysOf(sheet[t], r.symbol)
        IN  /\ CoverageOk(D("raw"), D("qfq"), Start(r), r.asOf)
            /\ \E x \in sheet["latest"] : x.symbol = r.symbol /\ x.day = r.asOf
            /\ ValidatedAt(r.symbol, r.asOf)
    BY <2>5, <2>6, <2>7 DEF Repaired, Noted, ValidatedAt
  <2> QED BY <2>8 DEF r
<1> HIDE DEF Enabled
<1>2. (Spec => [][\A c \in Commands, s \in Symbols : Enabled(c, s)]_vars)
  BY Apart, <1>1, PTL DEF Spec
<1> QED BY <1>2 DEF EnableIsLast, Enabled

\* With the writers kept apart, a table is cleared only by a writer that holds its rows.
THEOREM RewritesKeepRows == Serialized => (Spec => RowsSurviveRewrites)
<1> SUFFICES ASSUME Serialized PROVE Spec => RowsSurviveRewrites
  OBVIOUS
<1> DEFINE Kept(p) ==
      (run[p].pc = "clear" /\ run'[p].pc = "put") =>
            LET t == Head(run[p].todo)
            IN  \A x \in sheet[t] :
                   \/ x \in Content(run[p], t)
                   \/ x.symbol \in SymbolsOf(run[p].got[t]) /\ (t = "latest" \/ run[p].op = "QFQ")
<1>1. TypeOK /\ ApartInv /\ [Next]_vars => [\A p \in Writers : Kept(p)]_vars
  <2> SUFFICES ASSUME TypeOK, ApartInv, NEW p \in Writers, run[p].pc = "clear" PROVE Kept(p)
    OBVIOUS
  <2> DEFINE r == run[p]
             t == Head(r.todo)
  <2>1. r \in Memory /\ Ready(r) /\ Sound(p, r, sheet, validation) /\ r.pc = "clear"
    BY Current
  <2> HIDE DEF r
  <2>2. t \in Tables /\ t \in Pending(r.todo)
    BY <2>1, HeadOff DEF Ready, Memory
  <2>3. t \in Mirrored(p, r)
    BY <2>1, <2>2 DEF Mirrored
  <2>4. r.cache[t] = sheet[t]
    BY <2>1, <2>3 DEF Sound
  <2> HIDE DEF t
  <2>5. \A x \in sheet[t] : \/ x \in Content(r, t)
                            \/ x.symbol \in SymbolsOf(r.got[t]) /\ (t = "latest" \/ r.op = "QFQ")
    BY <2>4 DEF Content, UpsertLatest, UpsertHistory, ReplaceSeries
  <2> QED BY <2>5 DEF t, r
<1> HIDE DEF Kept
<1>2. (Spec => [][\A p \in Writers : Kept(p)]_vars)
  BY Apart, <1>1, PTL DEF Spec
<1> QED BY <1>2 DEF RowsSurviveRewrites, Kept

=============================================================================
