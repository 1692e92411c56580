---------------------------- MODULE SetupProofs ----------------------------
(***************************************************************************)
(* Proofs about `runtimepulse setup`, for any number of agents, configs,   *)
(* instruction files, edits and interrupted runs.                          *)
(***************************************************************************)
EXTENDS MCClients, ClientProofs, FiniteSetTheorems

----------------------------------------------------------------------------
(* The order in which a set of agents is gone through, and the first marker of a file *)

\* The agents that are still to be gone through.
Rest(q) == {q[i] : i \in 1 .. Len(q)}

\* An order of a finite set goes through all of it, and nothing else.
LEMMA OrderIsWhole ==
    ASSUME NEW S, IsFiniteSet(S)
    PROVE  SetToSeq(S) \in Seq(S) /\ Rest(SetToSeq(S)) = S
<1> DEFINE n == Cardinality(S)
           f == SetToSeq(S)
<1>1. n \in Nat /\ ExistsBijection(1 .. n, S)
  BY FS_CardinalityType
<1>2. \E g \in [1 .. n -> S] : IsInjective(g)
  BY <1>1 DEF ExistsBijection, Bijection, Injection
<1>3. f \in [1 .. n -> S] /\ IsInjective(f)
  BY <1>2 DEF SetToSeq
<1>4. IsFiniteSet(1 .. n) /\ Cardinality(1 .. n) = n
  BY <1>1, FS_Interval
<1> HIDE DEF f
<1>5. f \in Injection(1 .. n, S)
  BY <1>3 DEF Injection
<1>6. f \in Surjection(1 .. n, S)
  BY <1>4, <1>5, FS_Injection
<1> HIDE DEF n
<1>7. f \in Seq(S) /\ Len(f) = n
  BY <1>1, <1>3
<1>8. Rest(f) = S
  BY <1>3, <1>6, <1>7 DEF Rest, Surjection
<1> QED BY <1>7, <1>8 DEF f

\* A set of naturals that is not empty has a least element, which Min chooses.
LEMMA MinIsMember ==
    ASSUME NEW I \in SUBSET Nat, I # {}
    PROVE  Min(I) \in I
<1> DEFINE Less == OpToRel(<, Nat)
<1>1. IsWellFoundedOn(Less, Nat)
  BY NatLessThanWellFounded, Zenon
<1>2. \A x, y \in Nat : y < x => <<y, x>> \in Less
  BY DEF OpToRel
<1> HIDE DEF Less
<1>3. \E x \in I : \A y \in I : ~(<<y, x>> \in Less)
  <2>1. I \subseteq Nat
    OBVIOUS
  <2> QED BY <1>1, <2>1, WFMin, Zenon
<1>4. \E x \in I : \A y \in I : x =< y
  <2>1. PICK x \in I : \A y \in I : ~(<<y, x>> \in Less)
    BY <1>3
  <2>2. \A y \in I : ~(y < x)
    BY <1>2, <2>1, Zenon
  <2> QED BY <2>2
<1> QED BY <1>4 DEF Min

\* The line that Index finds is one of the file's.
LEMMA IndexType ==
    ASSUME NEW S, NEW d \in Seq(S), NEW x
    PROVE  Index(d, x) \in Nat /\ Index(d, x) <= Len(d)
<1> DEFINE I == {i \in 1 .. Len(d) : d[i] = x}
<1>1. Index(d, x) = IF I # {} THEN Min(I) ELSE 0
  BY DEF Index, SelectInSeq
<1>2. I \in SUBSET Nat /\ Len(d) \in Nat
  OBVIOUS
<1>3. I # {} => Min(I) \in I
  BY <1>2, MinIsMember
<1> QED BY <1>1, <1>2, <1>3

----------------------------------------------------------------------------
(* The merges *)

LEMMA MergeJSONParts ==
    ASSUME NEW c \in ConfigType, Mergeable(c)
    PROVE  /\ MergeJSONServer(c) \in ConfigType
           /\ HasServer(MergeJSONServer(c))
           /\ MergeJSONServer(c).keys = c.keys
           /\ MergeJSONServer(c).json = "object" /\ c.json \in {"absent", "object"}
           /\ c.section = "object" => c.servers \subseteq MergeJSONServer(c).servers
<1> DEFINE s == IF c.section = "object" THEN c.servers \cup {"ours"} ELSE {"ours"}
           m == [c EXCEPT !.json = "object", !.tail = FALSE, !.section = "object",
                          !.servers = s]
<1>1. /\ c.servers \in SUBSET {"ours", "theirs"} /\ c.keys \in BOOLEAN
      /\ c.json \in {"absent", "object"}
  BY DEF ConfigType, Mergeable
<1>2. /\ s \in SUBSET {"ours", "theirs"} /\ "ours" \in s
      /\ c.section = "object" => c.servers \subseteq s
  BY <1>1
<1>3. MergeJSONServer(c) = m
  BY DEF MergeJSONServer
<1> HIDE DEF s
<1>4. /\ m \in ConfigType
      /\ m.json = "object" /\ m.tail = FALSE /\ m.section = "object" /\ m.servers = s
      /\ m.keys = c.keys
  BY <1>1, <1>2 DEF ConfigType
<1> HIDE DEF m
<1>5. HasServer(m)
  BY <1>2, <1>4 DEF HasServer
<1> QED BY <1>1, <1>2, <1>3, <1>4, <1>5

LEMMA BlockType == Block \in Seq(Lines)
  BY DEF Block, Lines, Body

\* What is left of the first markers, and right of them, is the user's.
LEMMA MergeMarkerType ==
    ASSUME NEW d \in DocType
    PROVE  MergeMarkerBlock(d) \in Seq(Lines)
<1>1. CASE d = NoDoc
  BY <1>1, BlockType DEF MergeMarkerBlock
<1>2. CASE d # NoDoc
  <2>1. d \in Seq(Lines)
    BY <1>2 DEF DocType
  <2> DEFINE b == Index(d, "begin")
             e == Index(d, "end")
  <2>2. b \in Nat /\ b <= Len(d) /\ e \in Nat /\ e <= Len(d) /\ Len(d) \in Nat
    BY <2>1, IndexType
  <2>3. MergeMarkerBlock(d) = IF b > 0 /\ e >= b
                              THEN SubSeq(d, 1, b - 1) \o Block \o SubSeq(d, e + 1, Len(d))
                              ELSE d \o Block
    BY <1>2 DEF MergeMarkerBlock
  <2> HIDE DEF b, e
  <2>4. ASSUME b > 0, e >= b
        PROVE  SubSeq(d, 1, b - 1) \in Seq(Lines) /\ SubSeq(d, e + 1, Len(d)) \in Seq(Lines)
    <3>1. /\ 1 \in Int /\ b - 1 \in Int /\ e + 1 \in Int /\ Len(d) \in Int
          /\ \A i \in 1 .. b - 1 : d[i] \in Lines
          /\ \A i \in e + 1 .. Len(d) : d[i] \in Lines
      BY <2>1, <2>2, <2>4
    <3> QED BY <3>1, SubSeqProperties
  <2> QED BY <2>1, <2>2, <2>3, <2>4, BlockType, ConcatProperties
<1> QED BY <1>1, <1>2

----------------------------------------------------------------------------
(* What the command has done so far *)

\* Before the rules every agent that is not served is still to come; after that none is.
\* Only a config that is null ends the command in between.
ServedSoFar ==
    /\ setup \in {"run", "panic"} => \A a \in selected : a \in Rest(todo) \/ Served(a)
    /\ setup \in {"rules", "done"} => \A a \in selected : Served(a)
    /\ setup = "panic" => config[Head(todo)].json = "null"

\* The temporary file holds the merge of the config, or of the instruction file, as that
\* still is.
TempIsMerge ==
    /\ setup = "run" /\ temp # <<>> =>
          /\ Head(todo) \in Configured
          /\ Mergeable(config[Head(todo)])
          /\ temp = <<MergeJSONServer(config[Head(todo)])>>
    /\ setup = "rules" /\ temp # <<>> =>
          /\ Head(todo) \in Agents \ Manual
          /\ temp = <<MergeMarkerBlock(doc[Head(todo)])>>

SetupInv == SetupTypeOK /\ ServedSoFar /\ TempIsMerge

LEMMA AdvanceMoves ==
    ASSUME SetupInv, Advance, setup \in {"run", "rules"}
    PROVE  /\ todo' \in Seq(Agents) /\ temp' = <<>> /\ setup' \in {"run", "rules", "done"}
           /\ UNCHANGED <<installed, edits, selected, rules>>
           /\ setup' = "run" => setup = "run" /\ Rest(todo) \subseteq {Head(todo)} \cup Rest(todo')
           /\ setup = "run" /\ setup' # "run" => Rest(todo) \subseteq {Head(todo)}
<1>1. todo \in Seq(Agents) /\ selected \subseteq Agents /\ Len(todo) \in Nat
  BY DEF SetupInv, SetupTypeOK
<1>2. temp' = <<>> /\ UNCHANGED <<installed, edits, selected, rules>>
  BY DEF Advance
<1>3. CASE Len(todo) > 1
  <2>1. todo' = Tail(todo) /\ setup' = setup
    BY <1>3 DEF Advance
  <2>2. /\ todo' \in Seq(Agents) /\ Len(todo') = Len(todo) - 1 /\ Head(todo) = todo[1]
        /\ \A i \in 1 .. Len(todo') : todo'[i] = todo[i + 1]
    BY <1>1, <1>3, <2>1
  <2>3. ASSUME NEW i \in 1 .. Len(todo), i # 1
        PROVE  todo[i] \in Rest(todo')
    <3>1. i - 1 \in 1 .. Len(todo') /\ todo'[i - 1] = todo[(i - 1) + 1] /\ (i - 1) + 1 = i
      BY <1>1, <2>2, <2>3
    <3> QED BY <3>1 DEF Rest
  <2>4. Rest(todo) \subseteq {Head(todo)} \cup Rest(todo')
    BY <2>2, <2>3 DEF Rest
  <2> QED BY <1>2, <2>1, <2>2, <2>4
<1>4. CASE ~(Len(todo) > 1)
  <2>1. Rest(todo) \subseteq {Head(todo)}
    <3>1. \A i \in 1 .. Len(todo) : i = 1 /\ todo # <<>>
      BY <1>1, <1>4
    <3>2. todo # <<>> => Head(todo) = todo[1]
      BY <1>1
    <3> QED BY <3>1, <3>2 DEF Rest
  <2>2. CASE setup = "run" /\ rules
    <3>1. todo' = SetToSeq(selected) /\ setup' = "rules"
      BY <1>4, <2>2 DEF Advance
    <3>2. IsFiniteSet(selected)
      BY <1>1, SetupAssumption, FS_Subset
    <3>3. SetToSeq(selected) \in Seq(selected)
      BY <3>2, OrderIsWhole
    <3>4. todo' \in Seq(Agents)
      BY <1>1, <3>1, <3>3
    <3> QED BY <1>2, <2>1, <2>2, <3>1, <3>4
  <2>3. CASE ~(setup = "run" /\ rules)
    <3>1. todo' = <<>> /\ setup' = "done" /\ <<>> \in Seq(Agents)
      BY <1>4, <2>3 DEF Advance
    <3> QED BY <1>2, <2>1, <3>1
  <2> QED BY <2>2, <2>3
<1> QED BY <1>3, <1>4

LEMMA SetupInitInv == SetupInit => SetupInv
<1> SUFFICES ASSUME SetupInit PROVE SetupInv
  OBVIOUS
<1>1. <<>> \in Seq(Agents)
  OBVIOUS
<1>2. SetupTypeOK
  BY <1>1, SetupAssumption DEF SetupInit, SetupTypeOK, NoResult
<1>3. ServedSoFar /\ TempIsMerge
  BY DEF SetupInit, ServedSoFar, TempIsMerge
<1> QED BY <1>2, <1>3 DEF SetupInv

\* The step that is the last of an agent serves it.
LEMMA AgentIsServed ==
    ASSUME SetupInv, NEW a, setup = "run", Head(todo) = a, Advance, Served(a)',
           \A b \in selected : b # a /\ Served(b) => Served(b)'
    PROVE  ServedSoFar'
<1>1. /\ selected' = selected /\ setup' \in {"run", "rules", "done"}
      /\ setup' = "run" => Rest(todo) \subseteq {a} \cup Rest(todo')
      /\ setup' # "run" => Rest(todo) \subseteq {a}
  BY AdvanceMoves
<1>2. \A b \in selected : b \in Rest(todo) \/ Served(b)
  BY DEF SetupInv, ServedSoFar
<1>3. ASSUME NEW b \in selected
      PROVE  /\ setup' = "run" => b \in Rest(todo') \/ Served(b)'
             /\ setup' # "run" => Served(b)'
  <2>1. CASE b = a
    BY <2>1
  <2>2. CASE b # a
    BY <1>1, <1>2, <2>2
  <2> QED BY <2>1, <2>2
<1> QED BY <1>1, <1>3 DEF ServedSoFar

\* Reporting for an agent, and what stays of the others.
LEMMA ReportMoves ==
    ASSUME SetupInv, NEW a \in Agents, NEW res \in {"ok", "skipped", "error"}, Report(a, res)
    PROVE  /\ result' \in [Agents -> {"none", "ok", "skipped", "error"}]
           /\ result'[a] = res
           /\ \A b \in Agents : b # a => result'[b] = result[b]
  BY DEF SetupInv, SetupTypeOK, Report

LEMMA ServeKeeps ==
    ASSUME SetupInv, NEW a \in Agents,
           SkipAgent(a) \/ RegisterNative(a) \/ RenameConfig(a)
    PROVE  SetupInv'
<1>1. setup = "run" /\ Head(todo) = a /\ Advance /\ doc' = doc
  BY DEF SkipAgent, RegisterNative, RenameConfig, At
<1>2. /\ todo' \in Seq(Agents) /\ temp' = <<>> /\ setup' \in {"run", "rules", "done"}
      /\ UNCHANGED <<installed, edits, selected, rules>>
  BY <1>1, AdvanceMoves
<1>3. PICK res \in {"ok", "skipped", "error"} : Report(a, res)
  BY DEF SkipAgent, RegisterNative, RenameConfig
<1>4. /\ result' \in [Agents -> {"none", "ok", "skipped", "error"}]
      /\ result'[a] = res
      /\ \A b \in Agents : b # a => result'[b] = result[b]
  BY <1>3, ReportMoves
<1>5. /\ native \subseteq Native /\ config \in [Configured -> ConfigType]
      /\ selected \subseteq Agents
  BY DEF SetupInv, SetupTypeOK
<1>6. ASSUME native' \subseteq Native, config' \in [Configured -> ConfigType]
      PROVE  SetupTypeOK'
  BY <1>1, <1>2, <1>4, <1>6 DEF SetupInv, SetupTypeOK
<1>7. TempIsMerge'
  BY <1>2 DEF TempIsMerge
<1>8. CASE SkipAgent(a)
  <2>1. native' = native /\ config' = config
    BY <1>8 DEF SkipAgent
  <2>2. Registered(a) \/ Report(a, "error")
    BY <1>8 DEF SkipAgent
  <2>3. Registered(a) \/ result'[a] = "error"
    BY <2>2, ReportMoves
  <2>4. Served(a)' /\ \A b \in selected : b # a /\ Served(b) => Served(b)'
    BY <1>4, <1>5, <2>1, <2>3 DEF Served, Registered
  <2>5. ServedSoFar'
    BY <1>1, <2>4, AgentIsServed
  <2> QED BY <1>5, <1>6, <1>7, <2>1, <2>5 DEF SetupInv
<1>9. CASE RegisterNative(a)
  <2>1. /\ config' = config /\ a \in Native
        /\ \/ native' = native \cup {a}
           \/ native' = native /\ Report(a, "error")
    BY <1>9 DEF RegisterNative
  <2>2. a \in native' \/ result'[a] = "error"
    BY <2>1, ReportMoves
  <2>3. native' \subseteq Native /\ native \subseteq native'
    BY <1>5, <2>1
  <2>4. Served(a)'
    BY <2>1, <2>2 DEF Served, Registered
  <2>5. \A b \in selected : b # a /\ Served(b) => Served(b)'
    BY <1>4, <1>5, <2>1, <2>3 DEF Served, Registered
  <2>6. ServedSoFar'
    BY <1>1, <2>4, <2>5, AgentIsServed
  <2> QED BY <1>5, <1>6, <1>7, <2>1, <2>3, <2>6 DEF SetupInv
<1>10. CASE RenameConfig(a)
  <2>1. /\ native' = native /\ temp # <<>>
        /\ \/ config' = [config EXCEPT ![a] = temp[1]]
           \/ config' = config /\ Report(a, "error")
    BY <1>10 DEF RenameConfig
  <2>2. /\ a \in Configured /\ Mergeable(config[a]) /\ temp[1] = MergeJSONServer(config[a])
        /\ a \notin Native
    BY <1>1, <2>1, SetupAssumption DEF SetupInv, TempIsMerge
  <2>3. temp[1] \in ConfigType /\ HasServer(temp[1])
    BY <1>5, <2>2, MergeJSONParts
  <2>4. /\ config' \in [Configured -> ConfigType]
        /\ HasServer(config'[a]) \/ Report(a, "error")
        /\ \A b \in Configured : b # a => config'[b] = config[b]
    BY <1>5, <2>1, <2>2, <2>3
  <2>5. Served(a)'
    <3>1. HasServer(config'[a]) \/ result'[a] = "error"
      BY <2>4, ReportMoves
    <3> QED BY <2>2, <3>1 DEF Served, Registered
  <2>6. \A b \in selected : b # a /\ Served(b) => Served(b)'
    BY <1>4, <1>5, <2>1, <2>4 DEF Served, Registered, Agents
  <2>7. ServedSoFar'
    BY <1>1, <2>5, <2>6, AgentIsServed
  <2> QED BY <1>5, <1>6, <1>7, <2>1, <2>4, <2>7 DEF SetupInv
<1> QED BY <1>8, <1>9, <1>10

\* Nothing that the served agents depend on changes.
LEMMA ServedKept ==
    ASSUME SetupInv, UNCHANGED <<native, config>>, NEW a \in Agents,
           result'[a] = result[a] \/ result'[a] = "error"
    PROVE  Served(a) => Served(a)'
  BY DEF Served, Registered

\* The instruction files: the rules are written after all agents were served.
LEMMA RuleKeeps ==
    ASSUME SetupInv, NEW a \in Agents, SkipRule(a) \/ WriteRule(a) \/ RenameRule(a)
    PROVE  SetupInv'
<1>1. /\ setup = "rules" /\ UNCHANGED <<native, config>>
      /\ selected \subseteq Agents /\ doc \in [Agents \ Manual -> DocType]
      /\ result \in [Agents -> {"none", "ok", "skipped", "error"}]
      /\ \A b \in selected : Served(b)
  BY DEF SkipRule, WriteRule, RenameRule, At, SetupInv, SetupTypeOK, ServedSoFar
<1>2. ASSUME \A b \in Agents : result'[b] = result[b] \/ result'[b] = "error",
             selected' = selected, setup' \in {"rules", "done"}
      PROVE  ServedSoFar'
  BY <1>1, <1>2, ServedKept DEF ServedSoFar
<1>3. CASE WriteRule(a)
  <2>1. /\ UNCHANGED <<installed, doc, edits, setup, todo, selected, rules, result>>
        /\ a \in Agents \ Manual
        /\ temp' = <<MergeMarkerBlock(doc[a])>> /\ Head(todo) = a
    BY <1>3 DEF WriteRule, At
  <2>2. MergeMarkerBlock(doc[a]) \in Seq(Lines)
    BY <1>1, <2>1, MergeMarkerType
  <2>3. temp' \in Seq(Seq(Lines))
    BY <2>1, <2>2
  <2>4. SetupTypeOK'
    BY <1>1, <2>1, <2>3 DEF SetupInv, SetupTypeOK
  <2>5. TempIsMerge'
    BY <1>1, <2>1 DEF TempIsMerge
  <2> QED BY <1>1, <1>2, <2>1, <2>4, <2>5 DEF SetupInv
<1>4. CASE SkipRule(a) \/ RenameRule(a)
  <2>1. Advance
    BY <1>4 DEF SkipRule, RenameRule
  <2>2. /\ todo' \in Seq(Agents) /\ temp' = <<>> /\ setup' \in {"rules", "done"}
        /\ UNCHANGED <<installed, edits, selected, rules>>
    BY <1>1, <2>1, AdvanceMoves
  <2>3. /\ doc' \in [Agents \ Manual -> DocType]
        /\ result' \in [Agents -> {"none", "ok", "skipped", "error"}]
        /\ \A b \in Agents : result'[b] = result[b] \/ result'[b] = "error"
    <3>1. CASE SkipRule(a)
      BY <1>1, <3>1 DEF SkipRule
    <3>2. CASE RenameRule(a)
      <4>1. temp \in Seq(Seq(Lines)) /\ temp # <<>>
        BY <1>1, <3>2 DEF RenameRule, SetupInv, SetupTypeOK
      <4>2. temp[1] \in DocType
        BY <4>1 DEF DocType
      <4>3. CASE doc' = [doc EXCEPT ![a] = temp[1]] /\ result' = result
        BY <1>1, <4>2, <4>3
      <4>4. CASE doc' = doc /\ Report(a, "error")
        BY <1>1, <4>4, ReportMoves
      <4> QED BY <3>2, <4>3, <4>4 DEF RenameRule
    <3> QED BY <1>4, <3>1, <3>2
  <2>4. SetupTypeOK'
    BY <1>1, <2>2, <2>3 DEF SetupInv, SetupTypeOK
  <2>5. TempIsMerge'
    BY <2>2 DEF TempIsMerge
  <2> QED BY <1>2, <2>2, <2>3, <2>4, <2>5 DEF SetupInv
<1> QED BY <1>3, <1>4

LEMMA LineAdded ==
    ASSUME NEW S, NEW d \in Seq(S), NEW x \in S
    PROVE  Append(d, x) \in Seq(S) /\ <<x>> \o d \in Seq(S)
  OBVIOUS

\* The user edits a file.
LEMMA EditKeeps ==
    ASSUME SetupInv, NEW a \in Agents \ Manual, EditDoc(a)
    PROVE  SetupInv'
<1>1. /\ setup = "idle" /\ edits' = edits + 1 /\ edits \in Nat /\ doc[a] # NoDoc
      /\ UNCHANGED <<installed, native, config, setup, todo, selected, rules, temp, result>>
      /\ doc \in [Agents \ Manual -> DocType]
  BY DEF EditDoc, SetupInv, SetupTypeOK
<1>2. doc[a] \in Seq(Lines)
  BY <1>1 DEF DocType
<1>3. \E d \in Seq(Lines) : doc' = [doc EXCEPT ![a] = d]
  <2>1. ASSUME NEW x \in {"text 2", "begin", "end"}
        PROVE  Append(doc[a], x) \in Seq(Lines) /\ <<x>> \o doc[a] \in Seq(Lines)
    <3>1. x \in Lines
      BY DEF Lines
    <3> QED BY <1>2, <3>1, LineAdded, Zenon
  <2>2. ASSUME NEW i \in DOMAIN doc[a]
        PROVE  RemoveAt(doc[a], i) \in Seq(Lines)
    <3>1. i \in 1 .. Len(doc[a]) /\ Len(doc[a]) \in Nat
      BY <1>2, <2>2
    <3>2. /\ 1 \in Int /\ i - 1 \in Int /\ i + 1 \in Int /\ Len(doc[a]) \in Int
          /\ \A j \in 1 .. i - 1 : doc[a][j] \in Lines
          /\ \A j \in i + 1 .. Len(doc[a]) : doc[a][j] \in Lines
      BY <1>2, <3>1
    <3>3. /\ SubSeq(doc[a], 1, i - 1) \in Seq(Lines)
          /\ SubSeq(doc[a], i + 1, Len(doc[a])) \in Seq(Lines)
      BY <3>2, SubSeqProperties
    <3> QED BY <3>3, ConcatProperties DEF RemoveAt
  <2>3. \/ \E x \in {"text 2", "begin", "end"} :
              \/ doc' = [doc EXCEPT ![a] = Append(doc[a], x)]
              \/ doc' = [doc EXCEPT ![a] = <<x>> \o doc[a]]
        \/ \E i \in DOMAIN doc[a] : doc' = [doc EXCEPT ![a] = RemoveAt(doc[a], i)]
    BY DEF EditDoc
  <2> QED BY <2>1, <2>2, <2>3
<1>4. doc' \in [Agents \ Manual -> DocType]
  BY <1>1, <1>3 DEF DocType
<1>5. SetupTypeOK'
  BY <1>1, <1>4 DEF SetupInv, SetupTypeOK
<1> QED BY <1>1, <1>5 DEF SetupInv, ServedSoFar, TempIsMerge

\* The command begins, is interrupted, panics or ends, and loses an agent; and the
\* temporary file.
LEMMA CommandStepKeeps ==
    ASSUME SetupInv,
           \/ \E a \in Agents : Uninstall(a) \/ WriteConfig(a) \/ Panic(a)
           \/ \E sel \in SUBSET Agents, r \in BOOLEAN : StartSetup(sel, r)
           \/ EndSetup
    PROVE  SetupInv'
<1>1. SetupTypeOK /\ ServedSoFar /\ TempIsMerge
  BY DEF SetupInv
<1>2. ASSUME NEW a \in Agents, Uninstall(a)
      PROVE  SetupInv'
  <2>1. /\ installed' \subseteq Agents
        /\ UNCHANGED <<native, config, doc, edits, setup, todo, selected, rules, temp, result>>
    BY <1>1, <1>2 DEF Uninstall, SetupTypeOK
  <2>2. SetupTypeOK'
    BY <1>1, <2>1 DEF SetupTypeOK
  <2> QED BY <1>1, <2>1, <2>2 DEF SetupInv, ServedSoFar, TempIsMerge, Served, Registered
<1>3. ASSUME NEW a \in Agents, WriteConfig(a)
      PROVE  SetupInv'
  <2>1. /\ setup = "run" /\ Head(todo) = a /\ a \in Configured /\ Mergeable(config[a])
        /\ temp' = <<MergeJSONServer(config[a])>>
        /\ UNCHANGED <<installed, native, config, doc, edits, setup, todo, selected, rules,
                       result>>
    BY <1>3 DEF WriteConfig, At
  <2>2. MergeJSONServer(config[a]) \in ConfigType
    BY <1>1, <2>1, MergeJSONParts DEF SetupTypeOK
  <2>3. temp' \in Seq(ConfigType)
    BY <2>1, <2>2
  <2>4. SetupTypeOK'
    BY <1>1, <2>1, <2>3 DEF SetupTypeOK
  <2>5. ServedSoFar'
    BY <1>1, <2>1 DEF ServedSoFar, Served, Registered
  <2>6. TempIsMerge'
    BY <2>1 DEF TempIsMerge
  <2> QED BY <2>4, <2>5, <2>6 DEF SetupInv
<1>4. ASSUME NEW sel \in SUBSET Agents, NEW r \in BOOLEAN, StartSetup(sel, r)
      PROVE  SetupInv'
  <2>1. /\ setup = "idle" /\ setup' = "run" /\ todo' = SetToSeq(sel) /\ selected' = sel
        /\ rules' = r /\ result' = NoResult /\ temp' = temp
        /\ UNCHANGED <<installed, native, config, doc, edits>>
    BY <1>4 DEF StartSetup
  <2>2. IsFiniteSet(sel)
    BY SetupAssumption, FS_Subset
  <2>3. todo' \in Seq(sel) /\ Rest(todo') = sel
    BY <2>1, <2>2, OrderIsWhole
  <2>4. todo' \in Seq(Agents)
    BY <2>3
  <2>5. temp = <<>>
    BY <1>1, <2>1 DEF SetupTypeOK
  <2>6. SetupTypeOK'
    BY <1>1, <2>1, <2>4, <2>5 DEF SetupTypeOK, NoResult
  <2>7. ServedSoFar' /\ TempIsMerge'
    BY <2>1, <2>3, <2>5 DEF ServedSoFar, TempIsMerge
  <2> QED BY <2>6, <2>7 DEF SetupInv
<1>5. CASE EndSetup
  <2>1. <<>> \in Seq(Agents)
    OBVIOUS
  <2>2. SetupTypeOK'
    BY <1>1, <1>5, <2>1 DEF EndSetup, SetupTypeOK, NoResult
  <2>3. ServedSoFar' /\ TempIsMerge'
    BY <1>5 DEF EndSetup, ServedSoFar, TempIsMerge
  <2> QED BY <2>2, <2>3 DEF SetupInv
<1>6. ASSUME NEW a \in Agents, Panic(a)
      PROVE  SetupInv'
  <2>1. /\ setup = "run" /\ setup' = "panic" /\ temp = <<>>
        /\ Head(todo) = a /\ config[a].json = "null"
        /\ UNCHANGED <<installed, native, config, doc, edits, todo, selected, rules, temp,
                       result>>
    BY <1>6 DEF Panic, At
  <2>2. SetupTypeOK'
    BY <1>1, <2>1 DEF SetupTypeOK
  <2>3. ServedSoFar' /\ TempIsMerge'
    BY <1>1, <2>1 DEF ServedSoFar, TempIsMerge, Served, Registered
  <2> QED BY <2>2, <2>3 DEF SetupInv
<1> QED BY <1>2, <1>3, <1>4, <1>5, <1>6

LEMMA SetupStep ==
    ASSUME SetupInv, [SetupNext]_setupVars
    PROVE  SetupInv'
<1>1. CASE SetupNext
  BY <1>1, ServeKeeps, RuleKeeps, EditKeeps, CommandStepKeeps DEF SetupNext
<1>2. CASE UNCHANGED setupVars
  <2>1. SetupTypeOK'
    BY <1>2 DEF SetupInv, setupVars, SetupTypeOK
  <2>2. ServedSoFar' /\ TempIsMerge'
    BY <1>2 DEF SetupInv, setupVars, ServedSoFar, TempIsMerge, Served, Registered
  <2> QED BY <2>1, <2>2 DEF SetupInv
<1> QED BY <1>1, <1>2

LEMMA SetupInvariant == SetupSpec => []SetupInv
  BY SetupInitInv, SetupStep, PTL DEF SetupSpec

\* One agent's failure is not another's: at the end of Run every selected agent is
\* registered or its error is reported, for any set of agents.  Only the panic of
\* mergeJSONServer, over a config that is the JSON value null, ends the run earlier, and
\* then it is so for every agent that came before.
THEOREM AgentsServed == SetupSpec => []EveryAgentServed
<1>1. SetupInv => EveryAgentServed
  <2> SUFFICES ASSUME SetupInv PROVE EveryAgentServed
    OBVIOUS
  <2>1. ToSet(todo) = Rest(todo)
    <3>1. DOMAIN todo = 1 .. Len(todo)
      BY DEF SetupInv, SetupTypeOK
    <3> QED BY <3>1 DEF ToSet, Rest
  <2> QED BY <2>1 DEF SetupInv, ServedSoFar, EveryAgentServed
<1> QED BY <1>1, SetupInvariant, PTL

----------------------------------------------------------------------------
(* What stays of a file *)

\* Two parts of a file.
Glue(p, q) == p \o q

LEMMA GlueParts ==
    ASSUME NEW S, NEW p \in Seq(S), NEW q \in Seq(S)
    PROVE  /\ Glue(p, q) \in Seq(S) /\ Len(p) \in Nat /\ Len(q) \in Nat
           /\ Len(Glue(p, q)) = Len(p) + Len(q)
           /\ \A i \in 1 .. Len(p) : Glue(p, q)[i] = p[i]
           /\ \A i \in 1 .. Len(q) : Glue(p, q)[Len(p) + i] = q[i]
  BY DEF Glue

\* A file with one block, between lines p and r of the user.
Framed(p, r) == Glue(Glue(p, Block), r)

LEMMA FramedParts ==
    ASSUME NEW p \in Seq(Lines), NEW r \in Seq(Lines)
    PROVE  /\ Framed(p, r) \in Seq(Lines) /\ Len(p) \in Nat /\ Len(r) \in Nat
           /\ Len(Framed(p, r)) = Len(p) + 3 + Len(r)
           /\ \A i \in 1 .. Len(p) : Framed(p, r)[i] = p[i]
           /\ Framed(p, r)[Len(p) + 1] = "begin" /\ Framed(p, r)[Len(p) + 2] = Body
           /\ Framed(p, r)[Len(p) + 3] = "end"
           /\ \A i \in 1 .. Len(r) : Framed(p, r)[Len(p) + 3 + i] = r[i]
<1>0. Block \in Seq(Lines)
  BY BlockType
<1>1. /\ Len(Block) = 3
      /\ Block[1] = "begin" /\ Block[2] = Body /\ Block[3] = "end"
  BY DEF Block
<1> DEFINE q == Glue(p, Block)
           m == Framed(p, r)
<1>2. /\ q \in Seq(Lines) /\ Len(q) = Len(p) + Len(Block) /\ Len(p) \in Nat
      /\ \A i \in 1 .. Len(p) : q[i] = p[i]
      /\ \A i \in 1 .. Len(Block) : q[Len(p) + i] = Block[i]
  <2>1. q \in Seq(Lines) /\ Len(q) = Len(p) + Len(Block) /\ Len(p) \in Nat
    BY <1>0, GlueParts
  <2>2. \A i \in 1 .. Len(p) : q[i] = p[i]
    BY <1>0, GlueParts
  <2>3. \A i \in 1 .. Len(Block) : q[Len(p) + i] = Block[i]
    BY <1>0, GlueParts
  <2> QED BY <2>1, <2>2, <2>3
<1>3. m = Glue(q, r)
  BY DEF Framed
<1> HIDE DEF q, m
<1>4. /\ m \in Seq(Lines) /\ Len(m) = Len(q) + Len(r) /\ Len(r) \in Nat
      /\ \A i \in 1 .. Len(q) : m[i] = q[i]
      /\ \A i \in 1 .. Len(r) : m[Len(q) + i] = r[i]
  <2>1. q \in Seq(Lines)
    BY <1>2
  <2>2. m \in Seq(Lines) /\ Len(m) = Len(q) + Len(r) /\ Len(r) \in Nat
    BY <1>3, <2>1, GlueParts
  <2>3. \A i \in 1 .. Len(q) : Glue(q, r)[i] = q[i]
    BY <2>1, GlueParts
  <2>4. \A i \in 1 .. Len(r) : Glue(q, r)[Len(q) + i] = r[i]
    BY <2>1, GlueParts
  <2> QED BY <1>3, <2>2, <2>3, <2>4
<1>5. /\ q[Len(p) + 1] = "begin" /\ q[Len(p) + 2] = Body /\ q[Len(p) + 3] = "end"
      /\ Len(q) = Len(p) + 3
  <2>1. 1 \in 1 .. 3 /\ 2 \in 1 .. 3 /\ 3 \in 1 .. 3
    OBVIOUS
  <2> QED BY <1>1, <1>2, <2>1
<1>6. /\ \A i \in 1 .. Len(p) : i \in 1 .. Len(q)
      /\ Len(p) + 1 \in 1 .. Len(q) /\ Len(p) + 2 \in 1 .. Len(q) /\ Len(p) + 3 \in 1 .. Len(q)
  BY <1>2, <1>5
<1>7. /\ m \in Seq(Lines) /\ Len(p) \in Nat /\ Len(r) \in Nat
      /\ Len(m) = Len(p) + 3 + Len(r)
      /\ \A i \in 1 .. Len(p) : m[i] = p[i]
      /\ m[Len(p) + 1] = "begin" /\ m[Len(p) + 2] = Body /\ m[Len(p) + 3] = "end"
      /\ \A i \in 1 .. Len(r) : m[Len(p) + 3 + i] = r[i]
  BY <1>2, <1>4, <1>5, <1>6
<1> QED BY <1>7 DEF m

\* The part of a file from line a on that is q.
LEMMA Cut ==
    ASSUME NEW m \in Seq(Lines), NEW q \in Seq(Lines), NEW a \in Nat \ {0}, NEW b \in Nat,
           b <= Len(m), Len(q) = b - a + 1,
           \A i \in 1 .. Len(q) : m[a + i - 1] = q[i]
    PROVE  SubSeq(m, a, b) = q
<1> DEFINE c == SubSeq(m, a, b)
<1>1. Len(m) \in Nat /\ Len(q) \in Nat /\ \A i \in a .. b : m[i] \in Lines
  OBVIOUS
<1>2. /\ c \in Seq(Lines) /\ Len(c) = IF a <= b THEN b - a + 1 ELSE 0
      /\ \A i \in 1 .. b - a + 1 : c[i] = m[a + i - 1]
  BY <1>1, SubSeqProperties
<1> HIDE DEF c
<1>3. Len(c) = Len(q)
  BY <1>1, <1>2
<1>4. \A i \in 1 .. Len(c) : c[i] = q[i]
  BY <1>2, <1>3
<1>5. c = q
  BY <1>2, <1>3, <1>4, SeqEqual
<1> QED BY <1>5 DEF c

LEMMA OnlyMark ==
    ASSUME NEW d \in Seq(Lines), NEW x, NEW k \in 1 .. Len(d), Marks(d, x) = {k}
    PROVE  Index(d, x) = k
<1>1. Index(d, x) = IF Marks(d, x) # {} THEN Min(Marks(d, x)) ELSE 0
  BY DEF Index, SelectInSeq, Marks
<1>2. {k} \in SUBSET Nat /\ {k} # {} /\ Len(d) \in Nat
  OBVIOUS
<1>3. Min({k}) \in {k}
  BY <1>2, MinIsMember
<1> QED BY <1>1, <1>2, <1>3

LEMMA NoMark ==
    ASSUME NEW d, NEW x, Marks(d, x) = {}
    PROVE  Index(d, x) = 0
  BY DEF Index, SelectInSeq, Marks

\* Lines without a marker.
Unmarked(d) == Marks(d, "begin") = {} /\ Marks(d, "end") = {}

\* A file with one block is well-formed, the block is what is not of the user, and the
\* next merge finds nothing to do.
LEMMA FramedIsStable ==
    ASSUME NEW p \in Seq(Lines), NEW r \in Seq(Lines), Unmarked(p), Unmarked(r)
    PROVE  /\ WellFormed(Framed(p, r))
           /\ Outside(Framed(p, r)) = Glue(p, r)
           /\ MergeMarkerBlock(Framed(p, r)) = Framed(p, r)
<1> DEFINE m == Framed(p, r)
           b == Len(p) + 1
           e == Len(p) + 3
<1>1. /\ m \in Seq(Lines) /\ Len(p) \in Nat /\ Len(r) \in Nat
      /\ Len(m) = Len(p) + 3 + Len(r)
      /\ \A i \in 1 .. Len(p) : m[i] = p[i]
      /\ m[Len(p) + 1] = "begin" /\ m[Len(p) + 2] = Body /\ m[Len(p) + 3] = "end"
      /\ \A i \in 1 .. Len(r) : m[Len(p) + 3 + i] = r[i]
  BY FramedParts
<1>2. /\ \A i \in 1 .. Len(p) : p[i] # "begin" /\ p[i] # "end"
      /\ \A i \in 1 .. Len(r) : r[i] # "begin" /\ r[i] # "end"
  BY DEF Unmarked, Marks
<1> HIDE DEF m
<1>3. ASSUME NEW i \in 1 .. Len(m)
      PROVE  /\ m[i] = "begin" <=> i = b
             /\ m[i] = "end" <=> i = e
  <2>1. CASE i \in 1 .. Len(p)
    BY <1>1, <1>2, <2>1
  <2>2. CASE i \in {Len(p) + 1, Len(p) + 2, Len(p) + 3}
    <3>1. "begin" # Body /\ "end" # Body /\ "begin" # "end"
      BY DEF Body
    <3> QED BY <1>1, <2>2, <3>1
  <2>3. CASE i > Len(p) + 3
    <3>1. i - (Len(p) + 3) \in 1 .. Len(r) /\ Len(p) + 3 + (i - (Len(p) + 3)) = i
      BY <1>1, <2>3
    <3>2. m[i] = r[i - (Len(p) + 3)]
      BY <1>1, <3>1
    <3> QED BY <1>1, <1>2, <2>3, <3>1, <3>2
  <2> QED BY <1>1, <2>1, <2>2, <2>3
<1>4. b \in 1 .. Len(m) /\ e \in 1 .. Len(m) /\ b < e
  BY <1>1
<1>5. Marks(m, "begin") = {b} /\ Marks(m, "end") = {e}
  BY <1>3, <1>4 DEF Marks
<1>6. WellFormed(m)
  BY <1>4, <1>5 DEF WellFormed
<1>7. Index(m, "begin") = b /\ Index(m, "end") = e
  BY <1>1, <1>4, <1>5, OnlyMark
<1>8. m # NoDoc
  <2>1. Len(NoDoc) = 1
    BY DEF NoDoc
  <2> QED BY <1>1, <2>1
<1>9. SubSeq(m, 1, b - 1) = p
  <2>1. b - 1 \in Nat /\ b - 1 <= Len(m) /\ Len(p) = (b - 1) - 1 + 1 /\ 1 \in Nat \ {0}
        /\ \A i \in 1 .. Len(p) : m[1 + i - 1] = p[i]
    BY <1>1
  <2> QED BY <1>1, <2>1, Cut
<1>10. SubSeq(m, e + 1, Len(m)) = r
  <2>1. e + 1 \in Nat \ {0} /\ Len(m) \in Nat /\ Len(m) <= Len(m)
        /\ Len(r) = Len(m) - (e + 1) + 1
        /\ \A i \in 1 .. Len(r) : m[(e + 1) + i - 1] = r[i]
    BY <1>1
  <2> QED BY <1>1, <2>1, Cut
<1>11. b # 0 /\ b > 0 /\ e >= b
  BY <1>1
<1> HIDE DEF b, e
<1>12. Outside(m) = p \o r
  <2>1. Outside(m) = SubSeq(m, 1, b - 1) \o SubSeq(m, e + 1, Len(m))
    BY <1>7, <1>8, <1>11, Zenon DEF Outside
  <2> QED BY <1>9, <1>10, <2>1, Zenon
<1>13. MergeMarkerBlock(m) = p \o Block \o r
  <2>1. MergeMarkerBlock(m) = SubSeq(m, 1, b - 1) \o Block \o SubSeq(m, e + 1, Len(m))
    BY <1>7, <1>8, <1>11, Zenon DEF MergeMarkerBlock
  <2> QED BY <1>9, <1>10, <2>1, Zenon
<1>14. m = p \o Block \o r /\ Glue(p, r) = p \o r
  BY Zenon DEF m, Framed, Glue
<1> QED BY <1>6, <1>12, <1>13, <1>14, Zenon DEF m


\* The merge of a file without stray markers: the user's lines stay around one block.
LEMMA MergeKeepsText ==
    ASSUME NEW d \in DocType, WellFormed(d)
    PROVE  /\ WellFormed(MergeMarkerBlock(d))
           /\ Outside(MergeMarkerBlock(d)) = Outside(d)
           /\ MergeMarkerBlock(MergeMarkerBlock(d)) = MergeMarkerBlock(d)
<1>1. <<>> \in Seq(Lines) /\ Unmarked(<<>>) /\ Block \in Seq(Lines)
  <2>1. <<>> \in Seq(Lines)
    OBVIOUS
  <2>2. Unmarked(<<>>)
    BY DEF Unmarked, Marks
  <2> QED BY <2>1, <2>2, BlockType
<1>2. ASSUME NEW p \in Seq(Lines), NEW r \in Seq(Lines), Unmarked(p), Unmarked(r),
             MergeMarkerBlock(d) = Framed(p, r), Outside(d) = Glue(p, r)
      PROVE  /\ WellFormed(MergeMarkerBlock(d))
             /\ Outside(MergeMarkerBlock(d)) = Outside(d)
             /\ MergeMarkerBlock(MergeMarkerBlock(d)) = MergeMarkerBlock(d)
  <2>1. /\ WellFormed(Framed(p, r))
        /\ Outside(Framed(p, r)) = Glue(p, r)
        /\ MergeMarkerBlock(Framed(p, r)) = Framed(p, r)
    BY <1>2, FramedIsStable
  <2> QED BY <1>2, <2>1, Zenon
<1>3. CASE d = NoDoc
  <2>1. MergeMarkerBlock(d) = Block /\ Outside(d) = <<>>
    BY <1>3, Zenon DEF MergeMarkerBlock, Outside
  <2>2. Framed(<<>>, <<>>) = Block /\ Glue(<<>>, <<>>) = <<>>
    BY <1>1, ConcatEmptySeq DEF Framed, Glue
  <2> QED BY <1>1, <1>2, <2>1, <2>2
<1>4. CASE d # NoDoc /\ Unmarked(d)
  <2>1. d \in Seq(Lines)
    BY <1>4 DEF DocType
  <2>2. Index(d, "begin") = 0
    BY <1>4, NoMark DEF Unmarked
  <2>3. MergeMarkerBlock(d) = d \o Block
    <3>1. ~(0 > 0)
      OBVIOUS
    <3> QED BY <1>4, <2>2, <3>1, Zenon DEF MergeMarkerBlock
  <2>4. Outside(d) = d
    BY <1>4, <2>2, Zenon DEF Outside
  <2>5. Framed(d, <<>>) = d \o Block /\ Glue(d, <<>>) = d
    <3>1. d \o Block \in Seq(Lines)
      BY <1>1, <2>1, ConcatProperties
    <3> QED BY <2>1, <3>1, ConcatEmptySeq DEF Framed, Glue
  <2> QED BY <1>1, <1>2, <1>4, <2>1, <2>3, <2>4, <2>5
<1>5. CASE d # NoDoc /\ ~Unmarked(d)
  <2>1. d \in Seq(Lines) /\ Len(d) \in Nat
    BY <1>5 DEF DocType
  <2>2. PICK b \in 1 .. Len(d), e \in 1 .. Len(d) :
            b < e /\ Marks(d, "begin") = {b} /\ Marks(d, "end") = {e}
    BY <1>5, Zenon DEF WellFormed, Unmarked
  <2>3. Index(d, "begin") = b /\ Index(d, "end") = e
    BY <2>1, <2>2, OnlyMark
  <2>4. b # 0 /\ b > 0 /\ e >= b /\ b - 1 \in Nat /\ b - 1 < Len(d) /\ e + 1 \in Nat
    BY <2>1, <2>2
  <2> DEFINE p == SubSeq(d, 1, b - 1)
             r == SubSeq(d, e + 1, Len(d))
  <2>5. Outside(d) = p \o r
    BY <1>5, <2>3, <2>4, Zenon DEF Outside
  <2>6. MergeMarkerBlock(d) = p \o Block \o r
    BY <1>5, <2>3, <2>4, Zenon DEF MergeMarkerBlock
  <2>7. /\ p \in Seq(Lines) /\ Len(p) = b - 1
        /\ \A i \in 1 .. b - 1 : p[i] = d[i]
    <3>1. 1 \in Int /\ b - 1 \in Int /\ \A i \in 1 .. b - 1 : d[i] \in Lines
      BY <2>1, <2>2, <2>4
    <3>2. /\ p \in Seq(Lines) /\ Len(p) = IF 1 <= b - 1 THEN (b - 1) - 1 + 1 ELSE 0
          /\ \A i \in 1 .. (b - 1) - 1 + 1 : p[i] = d[1 + i - 1]
      BY <3>1, SubSeqProperties
    <3> HIDE DEF p
    <3> QED BY <2>4, <3>2
  <2>8. /\ r \in Seq(Lines) /\ Len(r) = Len(d) - e
        /\ \A i \in 1 .. Len(d) - e : r[i] = d[e + i]
    <3>1. e + 1 \in Int /\ Len(d) \in Int /\ \A i \in e + 1 .. Len(d) : d[i] \in Lines
      BY <2>1, <2>2, <2>4
    <3>2. /\ r \in Seq(Lines) /\ Len(r) = IF e + 1 <= Len(d) THEN Len(d) - (e + 1) + 1 ELSE 0
          /\ \A i \in 1 .. Len(d) - (e + 1) + 1 : r[i] = d[(e + 1) + i - 1]
      BY <3>1, SubSeqProperties
    <3> HIDE DEF r
    <3> QED BY <2>1, <2>2, <2>4, <3>2
  <2> HIDE DEF p, r
  <2>9. \A i \in 1 .. Len(d) : (d[i] = "begin" <=> i = b) /\ (d[i] = "end" <=> i = e)
    BY <2>2 DEF Marks
  <2>10. Unmarked(p)
    <3>1. \A i \in 1 .. Len(p) : i \in 1 .. Len(d) /\ i # b /\ i # e /\ p[i] = d[i]
      BY <2>1, <2>2, <2>4, <2>7
    <3> QED BY <2>9, <3>1 DEF Unmarked, Marks
  <2>11. Unmarked(r)
    <3>1. \A i \in 1 .. Len(r) : e + i \in 1 .. Len(d) /\ e + i # b /\ e + i # e /\ r[i] = d[e + i]
      BY <2>1, <2>2, <2>4, <2>8
    <3> QED BY <2>9, <3>1 DEF Unmarked, Marks
  <2>12. MergeMarkerBlock(d) = Framed(p, r) /\ Outside(d) = Glue(p, r)
    BY <2>5, <2>6, Zenon DEF Framed, Glue
  <2> QED BY <1>2, <2>7, <2>8, <2>10, <2>11, <2>12
<1> QED BY <1>3, <1>4, <1>5

----------------------------------------------------------------------------
(* What a step may do to a file *)

\* A config changes in one step only, the rename of its merge.
LEMMA ConfigIsMerged ==
    ASSUME SetupInv, [SetupNext]_setupVars, NEW a \in Configured, config'[a] # config[a]
    PROVE  Mergeable(config[a]) /\ config'[a] = MergeJSONServer(config[a])
<1>1. ASSUME config' = config PROVE FALSE
  BY <1>1
<1>2. PICK c \in Agents : RenameConfig(c)
  BY <1>1 DEF SetupNext, setupVars, Uninstall, EditDoc, StartSetup, SkipAgent, Panic,
              RegisterNative, WriteConfig, SkipRule, WriteRule, RenameRule, EndSetup
<1>3. config \in [Configured -> ConfigType]
  BY DEF SetupInv, SetupTypeOK
<1>4. setup = "run" /\ temp # <<>> /\ Head(todo) = c /\ config' = [config EXCEPT ![c] = temp[1]]
  BY <1>1, <1>2 DEF RenameConfig, At
<1>5. c = a /\ config'[a] = temp[1]
  BY <1>3, <1>4
<1>6. Mergeable(config[a]) /\ temp = <<MergeJSONServer(config[a])>>
  BY <1>4, <1>5 DEF SetupInv, TempIsMerge
<1> QED BY <1>5, <1>6

\* The set-up takes nothing of others out of a config, whenever it is interrupted
\* (mergeJSONServer, atomicWrite): what is renamed is the merge of what is there.
THEOREM ConfigRestKept == SetupSpec => ConfigKeepsRest
<1> DEFINE Kept == \A a \in Configured :
             /\ config'[a].keys = config[a].keys
             /\ config'[a].json # config[a].json => config[a].json = "absent"
             /\ config[a].section = "object" => config[a].servers \subseteq config'[a].servers
<1>1. SetupInv /\ [SetupNext]_setupVars => [Kept]_setupVars
  <2> SUFFICES ASSUME SetupInv, [SetupNext]_setupVars, NEW a \in Configured
               PROVE  /\ config'[a].keys = config[a].keys
                      /\ config'[a].json # config[a].json => config[a].json = "absent"
                      /\ config[a].section = "object" =>
                            config[a].servers \subseteq config'[a].servers
    OBVIOUS
  <2>1. CASE config'[a] = config[a]
    BY <2>1, Zenon
  <2>2. CASE config'[a] # config[a]
    <3>1. config[a] \in ConfigType
      BY DEF SetupInv, SetupTypeOK
    <3>2. Mergeable(config[a]) /\ config'[a] = MergeJSONServer(config[a])
      BY <2>2, ConfigIsMerged
    <3>3. /\ MergeJSONServer(config[a]).keys = config[a].keys
          /\ MergeJSONServer(config[a]).json = "object"
          /\ config[a].json \in {"absent", "object"}
          /\ config[a].section = "object" =>
                config[a].servers \subseteq MergeJSONServer(config[a]).servers
      BY <3>1, <3>2, MergeJSONParts
    <3> HIDE DEF Kept
    <3> QED BY <3>2, <3>3, Zenon
  <2> QED BY <2>1, <2>2
<1> QED BY <1>1, SetupInvariant, PTL DEF SetupSpec, ConfigKeepsRest

\* While the command runs, an instruction file changes in one step only, the rename of its
\* merge.
LEMMA DocIsMerged ==
    ASSUME SetupInv, [SetupNext]_setupVars, setup # "idle", NEW a \in Agents \ Manual,
           doc'[a] # doc[a]
    PROVE  doc'[a] = MergeMarkerBlock(doc[a])
<1>1. ASSUME doc' = doc PROVE FALSE
  BY <1>1
<1>2. PICK c \in Agents : RenameRule(c)
  BY <1>1 DEF SetupNext, setupVars, Uninstall, EditDoc, StartSetup, SkipAgent, Panic,
              RegisterNative, WriteConfig, RenameConfig, SkipRule, WriteRule, EndSetup
<1>3. doc \in [Agents \ Manual -> DocType]
  BY DEF SetupInv, SetupTypeOK
<1>4. setup = "rules" /\ temp # <<>> /\ Head(todo) = c /\ doc' = [doc EXCEPT ![c] = temp[1]]
  BY <1>1, <1>2 DEF RenameRule, At
<1>5. c = a /\ doc'[a] = temp[1]
  BY <1>3, <1>4
<1>6. temp = <<MergeMarkerBlock(doc[a])>>
  BY <1>4, <1>5 DEF SetupInv, TempIsMerge
<1> QED BY <1>5, <1>6

\* Over any number of set-ups, interrupted ones too, a file without stray markers keeps the
\* user's lines in their order and gets one block, which the next merge finds as it should
\* be (mergeMarkerBlock).
THEOREM GuidanceKept == SetupSpec => GuidanceKeepsText
<1> DEFINE Kept == \A a \in Agents \ Manual :
             setup # "idle" /\ WellFormed(doc[a]) =>
                 /\ WellFormed(doc'[a])
                 /\ Outside(doc'[a]) = Outside(doc[a])
                 /\ doc'[a] # doc[a] => MergeMarkerBlock(doc'[a]) = doc'[a]
<1>1. SetupInv /\ [SetupNext]_setupVars => [Kept]_setupVars
  <2> SUFFICES ASSUME SetupInv, [SetupNext]_setupVars, NEW a \in Agents \ Manual,
                      setup # "idle", WellFormed(doc[a])
               PROVE  /\ WellFormed(doc'[a])
                      /\ Outside(doc'[a]) = Outside(doc[a])
                      /\ doc'[a] # doc[a] => MergeMarkerBlock(doc'[a]) = doc'[a]
    OBVIOUS
  <2>1. CASE doc'[a] = doc[a]
    BY <2>1, Zenon
  <2>2. CASE doc'[a] # doc[a]
    <3>1. doc[a] \in DocType
      BY DEF SetupInv, SetupTypeOK
    <3>2. doc'[a] = MergeMarkerBlock(doc[a])
      BY <2>2, DocIsMerged
    <3> QED BY <3>1, <3>2, MergeKeepsText, Zenon
  <2> QED BY <2>1, <2>2
<1> QED BY <1>1, SetupInvariant, PTL DEF SetupSpec, GuidanceKeepsText

----------------------------------------------------------------------------
(* The clients together *)

\* Whichever client runs, the variables of all of them stay in range.
THEOREM ClientTypes == Spec => []TypeOK
<1> DEFINE Inv == LifeInv /\ StreamInv /\ ApplyInv /\ SetupInv
<1>1. Init => Inv
  BY LifeInitInv, StreamInitInv, ApplyInitInv, SetupInitInv DEF Init
<1>2. Inv /\ [Next]_vars => Inv'
  <2> SUFFICES ASSUME Inv, [Next]_vars PROVE Inv'
    OBVIOUS
  <2>1. /\ [LifeNext]_lifeVars /\ [StreamNext]_streamVars
        /\ [ApplyNext]_applyVars /\ [SetupNext]_setupVars
    BY Zenon DEF Next, vars
  <2> QED BY <2>1, LifeStep, StreamStep, ApplyStep, SetupStep
<1>3. Inv => TypeOK
  BY DEF LifeInv, StreamInv, ApplyInv, SetupInv, TypeOK
<1> QED BY <1>1, <1>2, <1>3, PTL DEF Spec
=============================================================================
