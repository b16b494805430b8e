--------------------------- MODULE RulesEngineProofs ---------------------------
(***************************************************************************)
(* The rules file and the active rules, for any number of requests that    *)
(* save or reload, any texts, and any number of crashes.                   *)
(***************************************************************************)
EXTENDS RulesEngine, FiniteSetTheorems, SequenceTheorems, WellFoundedInduction, TLAPS

Labels == {"idle", "lock", "write", "rename", "activate", "read", "done"}

\* The places in which a saver has writeMu.
Holding == {"write", "rename", "activate", "read"}

\* The rules of a file.
RulesOf(f) == IF f = Missing THEN NoRules ELSE compile(f.file)

\* Whoever is at such a place has it, and nobody else.
LockAt ==
  /\ pc \in [Savers -> Labels]
  /\ lock \in Savers \cup {"none"}
  /\ \A s \in Savers : pc[s] \in Holding <=> lock = s

\* What a saver writes was accepted, and it renames what it wrote.
TextAt ==
  /\ DOMAIN text = Savers /\ DOMAIN tmp = Savers /\ DOMAIN answer = Savers
  /\ \A s \in Savers :
       /\ pc[s] \in {"lock", "write", "rename", "activate"} =>
            text[s] \in Texts /\ Ok(text[s])
       /\ pc[s] = "rename" => tmp[s] = text[s]

\* Between the rename and the publication the file is the saver's text; otherwise
\* the active rules are the file's. A hand's edit may come at any time.
FileAt ==
  /\ file \in Texts \cup {Missing}
  /\ \A s \in Savers : pc[s] = "activate" /\ ~byHand => file = text[s]
  /\ (\A s \in Savers : pc[s] # "activate") /\ ~byHand => active = RulesOf(file)

Inv == LockAt /\ TextAt /\ FileAt

LEMMA InitInv == Init => Inv
  BY RulesEngineAssumption
  DEF Init, Inv, LockAt, TextAt, FileAt, Labels, Holding, RulesOf

\* Before a saver has the mutex, and when it gets it, neither file nor rules change.
LEMMA BeforeInv ==
  ASSUME Inv, NEW s \in Savers, Save(s) \/ Lock(s) \/ StartLoad(s) PROVE Inv'
  <1>1. PICK l \in {"lock", "done", "write", "read"} :
          /\ pc[s] \in {"idle", "lock"}
          /\ pc' = [pc EXCEPT ![s] = l]
          /\ IF l \in {"write", "read"} THEN lock = "none" /\ lock' = s ELSE lock' = lock
          /\ UNCHANGED <<file, byHand, active, tmp>>
          /\ l = "write" => pc[s] = "lock"
    BY DEF Save, Lock, StartLoad, Goto
  <1>2. /\ DOMAIN text' = Savers /\ DOMAIN answer' = Savers
        /\ \A r \in Savers : r # s => text'[r] = text[r]
        /\ l \in {"lock", "write"} => text'[s] \in Texts /\ Ok(text'[s])
    <2>1. CASE Save(s)
      BY <1>1, <2>1 DEF Save, Goto, Inv, TextAt, LockAt
    <2>2. CASE Lock(s) \/ StartLoad(s)
      BY <1>1, <2>2 DEF Lock, StartLoad, Goto, Inv, TextAt, LockAt
    <2>. QED
      BY <2>1, <2>2
  <1>3. LockAt'
    BY <1>1, RulesEngineAssumption DEF Inv, LockAt, Labels, Holding
  <1>4. TextAt'
    BY <1>1, <1>2 DEF Inv, LockAt, TextAt
  <1>5. FileAt'
    BY <1>1, <1>2 DEF Inv, LockAt, TextAt, FileAt
  <1>. QED
    BY <1>3, <1>4, <1>5 DEF Inv

LEMMA WriteInv == ASSUME Inv, NEW s \in Savers, Write(s) PROVE Inv'
  <1>1. /\ pc[s] = "write" /\ lock = s
        /\ UNCHANGED <<file, byHand, active, text>>
    BY DEF Write, Inv, LockAt, Holding
  <1>2. PICK l \in {"write", "rename", "done"} :
          /\ pc' = [pc EXCEPT ![s] = l]
          /\ lock' = IF l = "done" THEN "none" ELSE lock
          /\ l = "rename" => tmp' = [tmp EXCEPT ![s] = text[s]]
    BY <1>1 DEF Write, Goto, Inv, LockAt
  <1>3. /\ DOMAIN tmp' = Savers /\ DOMAIN answer' = Savers
        /\ \A r \in Savers : r # s => tmp'[r] = tmp[r]
    BY DEF Write, Inv, TextAt
  <1>4. LockAt'
    BY <1>1, <1>2, RulesEngineAssumption DEF Inv, LockAt, Labels, Holding
  <1>5. TextAt'
    BY <1>1, <1>2, <1>3 DEF Inv, LockAt, TextAt
  <1>6. FileAt'
    BY <1>1, <1>2 DEF Inv, LockAt, FileAt
  <1>. QED
    BY <1>4, <1>5, <1>6 DEF Inv

LEMMA RenameInv == ASSUME Inv, NEW s \in Savers, Rename(s) PROVE Inv'
  <1>1. /\ pc[s] = "rename" /\ lock = s /\ text[s] \in Texts /\ file' = text[s] /\ byHand' = FALSE
        /\ pc' = [pc EXCEPT ![s] = "activate"]
        /\ UNCHANGED <<active, lock, text, answer>>
    BY DEF Rename, Goto, Inv, LockAt, TextAt, Holding
  <1>2. LockAt'
    BY <1>1 DEF Inv, LockAt, Labels, Holding
  <1>3. TextAt'
    BY <1>1 DEF Rename, Inv, LockAt, TextAt
  <1>4. FileAt'
    BY <1>1 DEF Inv, LockAt, FileAt, Holding
  <1>. QED
    BY <1>2, <1>3, <1>4 DEF Inv

LEMMA ActivateInv == ASSUME Inv, NEW s \in Savers, Activate(s) PROVE Inv'
  <1>1. /\ pc[s] = "activate" /\ lock = s /\ text[s] \in Texts
        /\ active' = compile(text[s].file)
        /\ pc' = [pc EXCEPT ![s] = "done"] /\ lock' = "none"
        /\ UNCHANGED <<file, byHand, text, tmp>>
    BY DEF Activate, Goto, Inv, LockAt, TextAt, Holding
  <1>2. LockAt'
    BY <1>1, RulesEngineAssumption DEF Inv, LockAt, Labels, Holding
  <1>3. TextAt'
    BY <1>1 DEF Activate, Inv, LockAt, TextAt
  <1>4. FileAt'
    BY <1>1, RulesEngineAssumption DEF Inv, LockAt, FileAt, Holding, RulesOf
  <1>. QED
    BY <1>2, <1>3, <1>4 DEF Inv

LEMMA LoadInv == ASSUME Inv, NEW s \in Savers, Load(s) PROVE Inv'
  <1>1. /\ pc[s] = "read" /\ lock = s
        /\ pc' = [pc EXCEPT ![s] = "done"] /\ lock' = "none"
        /\ UNCHANGED <<file, text, tmp>>
    BY DEF Load, Goto, Inv, LockAt, Holding
  <1>2. \/ active' = RulesOf(file)
        \/ UNCHANGED <<active, byHand>>
    BY DEF Load, RulesOf
  <1>3. LockAt'
    BY <1>1, RulesEngineAssumption DEF Inv, LockAt, Labels, Holding
  <1>4. TextAt'
    BY <1>1 DEF Load, Inv, LockAt, TextAt
  <1>5. FileAt'
    BY <1>1, <1>2 DEF Inv, LockAt, FileAt, Holding, RulesOf
  <1>. QED
    BY <1>3, <1>4, <1>5 DEF Inv

LEMMA RestartInv == ASSUME Inv, Restart PROVE Inv'
  BY RulesEngineAssumption
  DEF Restart, Inv, LockAt, TextAt, FileAt, Labels, Holding, RulesOf

LEMMA NextInv == Inv /\ [Next]_vars => Inv'
  <1>. SUFFICES ASSUME Inv, [Next]_vars PROVE Inv'
    OBVIOUS
  <1>1. CASE HandEdit
    BY <1>1 DEF HandEdit, saverVars, Inv, LockAt, TextAt, FileAt
  <1>2. CASE Exchange \/ UNCHANGED vars
    <2>1. UNCHANGED <<file, byHand, active, lock, saverVars>>
      BY <1>2 DEF Exchange, Ask, Apply, ApplyRule, Applied, vars
    <2>. QED
      BY <2>1 DEF saverVars, Inv, LockAt, TextAt, FileAt, RulesOf
  <1>. QED
    BY <1>1, <1>2, BeforeInv, WriteInv, RenameInv, ActivateInv, LoadInv, RestartInv
    DEF Next, Saver

\* When nobody is saving or loading, the active rules are those of the file, which
\* is whole, whoever saved, reloaded or crashed before (engine.go: the file and the
\* rules change under one mutex, and the file in one rename).
THEOREM RulesAreTheFiles == Spec => []ActiveMatchesFile
  <1>1. Inv => ActiveMatchesFile
    <2>. SUFFICES ASSUME Inv PROVE ActiveMatchesFile
      OBVIOUS
    <2>1. file # Torn
      BY RulesEngineAssumption DEF Inv, FileAt
    <2>2. lock = "none" => \A s \in Savers : pc[s] # "activate"
      BY RulesEngineAssumption DEF Inv, LockAt, Holding
    <2>. QED
      BY <2>1, <2>2 DEF Inv, FileAt, ActiveMatchesFile, FileIsWhole, RulesOf
  <1>. QED
    BY <1>1, InitInv, NextInv, PTL DEF Spec

\* A step that answers 400 changes neither the file nor the rules.
LEMMA RefusalChangesNothing ==
  ASSUME Inv, [Next]_vars, NEW r \in Savers, answer[r] # 400, answer'[r] = 400
  PROVE  UNCHANGED <<file, active>>
  <1>1. ASSUME NEW s \in Savers, Save(s) \/ Lock(s) \/ Write(s) \/ StartLoad(s)
        PROVE UNCHANGED <<file, active>>
    BY <1>1 DEF Save, Lock, Write, StartLoad
  <1>2. ASSUME NEW s \in Savers, Rename(s) \/ Activate(s) PROVE FALSE
    BY <1>2 DEF Rename, Activate, Inv, TextAt
  <1>3. ASSUME NEW s \in Savers, Load(s) PROVE UNCHANGED <<file, active>>
    BY <1>3 DEF Load, Inv, TextAt
  <1>4. CASE HandEdit \/ Exchange \/ UNCHANGED vars
    BY <1>4 DEF HandEdit, Exchange, Ask, Apply, ApplyRule, Applied, vars, saverVars
  <1>5. CASE Restart
    BY <1>5 DEF Restart
  <1>. QED
    BY <1>1, <1>2, <1>3, <1>4, <1>5 DEF Next, Saver

\* A save that is refused or fails, and a reload of a file that is not accepted, leave
\* the file and the rules as they were, whatever other requests do in between.
THEOREM RefusedChangesNothing == Spec => BadRequestChangesNothing
  <1>1. Inv /\ [Next]_vars =>
          [\A s \in Savers : answer[s] # 400 /\ answer'[s] = 400 => UNCHANGED <<file, active>>]_vars
    BY RefusalChangesNothing
  <1>. QED
    BY <1>1, InitInv, NextInv, PTL DEF Spec, BadRequestChangesNothing

-----------------------------------------------------------------------------
(* What a set's rules make of a message: the recursion that Run takes the  *)
(* last value of, and what holds of every value, by the least              *)
(* counterexample.                                                         *)

LEMMA LeastNat ==
  ASSUME NEW C \in SUBSET Nat, C # {}
  PROVE  \E n \in C : \A k \in C : n <= k
  <1>1. PICK m \in C : TRUE
    OBVIOUS
  <1>. DEFINE D == {0..k : k \in {i \in C : i <= m}}
  <1>2. D \subseteq FiniteSubsetsOf(0..m) /\ D # {}
    <2>1. \A s \in D : s \subseteq 0..m
      OBVIOUS
    <2>2. IsFiniteSet(0..m)
      BY FS_Interval
    <2>3. 0..m \in D
      OBVIOUS
    <2>. HIDE DEF D
    <2>. QED
      BY <2>1, <2>2, <2>3, FS_Subset DEF FiniteSubsetsOf
  <1>3. PICK s \in D : \A t \in D : ~(<<t, s>> \in StrictSubsetOrdering(0..m))
    <2>. HIDE DEF D
    <2>. QED
      BY <1>2, WFMin, FS_StrictSubsetOrderingWellFounded
  <1>4. PICK n \in C : n <= m /\ s = 0..n
    OBVIOUS
  <1>5. ASSUME NEW k \in C, k < n PROVE FALSE
    <2>1. 0..k \in D /\ 0..k \subseteq s /\ 0..k # s /\ s \subseteq 0..m
      BY <1>4, <1>5
    <2>. QED
      BY <1>3, <2>1 DEF StrictSubsetOrdering
  <1>. QED
    BY <1>4, <1>5

Start(m, body) == [msg |-> Seen(m.msg, body), fired |-> <<>>]

IsRun(f, set, m, body, n) ==
  f = [k \in 0..n |->
         IF k = 0 THEN Start(m, body)
         ELSE Turn(set.rules[k], m.direction, m.req, body, f[k - 1])]

\* What the first n rules of set make of m.
At(set, m, body, n) == (CHOOSE f : IsRun(f, set, m, body, Len(set.rules)))[n]

LEMMA RunIsAt ==
  ASSUME NEW set, NEW body PROVE Run(set, body) = At(set, ex.of, body, Len(set.rules))
  BY DEF Run, At, IsRun, Start

LEMMA RunExists ==
  ASSUME NEW set, NEW m, NEW body
  PROVE  \A n \in Nat : \E f : IsRun(f, set, m, body, n)
  <1>. DEFINE C == {n \in Nat : ~\E f : IsRun(f, set, m, body, n)}
  <1>. SUFFICES ASSUME C # {} PROVE FALSE
    OBVIOUS
  <1>1. PICK n \in C : \A k \in C : n <= k
    <2>1. C \in SUBSET Nat
      OBVIOUS
    <2>. HIDE DEF C
    <2>. QED
      BY <2>1, LeastNat
  <1>2. CASE n = 0
    <2>. DEFINE f == [k \in 0..0 |-> Start(m, body)]
    <2>1. IsRun(f, set, m, body, 0)
      BY DEF IsRun
    <2>. QED
      BY <1>2, <2>1
  <1>3. CASE n # 0
    <2>1. n - 1 \in Nat /\ n - 1 \notin C
      BY <1>1, <1>3
    <2>2. PICK f : IsRun(f, set, m, body, n - 1)
      BY <2>1
    <2>. DEFINE T(k, v) == Turn(set.rules[k], m.direction, m.req, body, v)
                g == [k \in 0..n |-> IF k = n THEN T(n, f[n - 1]) ELSE f[k]]
    <2>3. ASSUME NEW k \in 0..n
          PROVE  g[k] = IF k = 0 THEN Start(m, body) ELSE T(k, g[k - 1])
      <3>. HIDE DEF T
      <3>1. CASE k = n
        BY <1>3, <3>1
      <3>2. CASE k # n
        <4>1. k \in 0..(n - 1) /\ g[k] = f[k] /\ (k # 0 => g[k - 1] = f[k - 1])
          BY <3>2
        <4>. HIDE DEF g
        <4>. QED
          BY <2>2, <4>1 DEF IsRun, T
      <3>. QED
        BY <3>1, <3>2
    <2>4. IsRun(g, set, m, body, n)
      <3>1. g = [k \in 0..n |-> g[k]]
        OBVIOUS
      <3>. HIDE DEF g
      <3>. QED
        BY <2>3, <3>1 DEF IsRun
    <2>. QED
      BY <2>4
  <1>. QED
    BY <1>2, <1>3

LEMMA AtStep ==
  ASSUME NEW set, NEW m, NEW body, Len(set.rules) \in Nat
  PROVE  /\ At(set, m, body, 0) = Start(m, body)
         /\ \A n \in 1..Len(set.rules) :
              At(set, m, body, n) =
                Turn(set.rules[n], m.direction, m.req, body, At(set, m, body, n - 1))
  <1>. DEFINE f == CHOOSE f : IsRun(f, set, m, body, Len(set.rules))
  <1>1. IsRun(f, set, m, body, Len(set.rules))
    BY RunExists
  <1>2. ASSUME NEW n PROVE At(set, m, body, n) = f[n]
    BY DEF At
  <1>. HIDE DEF f
  <1>3. ASSUME NEW n \in 0..Len(set.rules)
        PROVE  f[n] = IF n = 0 THEN Start(m, body)
                      ELSE Turn(set.rules[n], m.direction, m.req, body, f[n - 1])
    BY <1>1 DEF IsRun
  <1>4. f[0] = Start(m, body)
    BY <1>3
  <1>5. ASSUME NEW n \in 1..Len(set.rules)
        PROVE  f[n] = Turn(set.rules[n], m.direction, m.req, body, f[n - 1])
    BY <1>3
  <1>. QED
    BY <1>2, <1>4, <1>5

-----------------------------------------------------------------------------
(* A compiled set, and one rule's turn.                                    *)

Actions == {"replace_header", "add_header", "remove_header",
            "replace_body", "body_regex_replace", "set_status"}

\* An enabled rule of the direction that has to look at the body.
Looks(rule, m) == rule.enabled /\ rule.direction = m.direction /\ needsBody(rule)

IsSet(set) ==
  /\ Len(set.rules) \in Nat /\ DOMAIN set.rules = 1..Len(set.rules)
  /\ \A i \in DOMAIN set.rules :
       /\ set.rules[i].action.type \in Actions
       /\ \A j \in DOMAIN set.rules : set.rules[i].id = set.rules[j].id => i = j
       /\ \A m : Looks(set.rules[i], m) => Needs(set, m)

\* The default for pathMatch is all that compile changes.
LEMMA NormalizedKeeps ==
  ASSUME NEW r, IsRule(r)
  PROVE  /\ Normalized(r).id = r.id /\ Normalized(r).action = r.action
         /\ Normalized(r).enabled = r.enabled /\ Normalized(r).direction = r.direction
         /\ needsBody(Normalized(r)) <=> needsBody(r)
  <1>1. /\ Normalized(r).id = r.id /\ Normalized(r).action = r.action
        /\ Normalized(r).enabled = r.enabled /\ Normalized(r).direction = r.direction
        /\ Normalized(r).conditions = r.conditions
    BY DEF Normalized, IsRule
  <1>. QED
    BY <1>1 DEF needsBody

LEMMA CompiledIsSet == \A set \in Compiled : IsSet(set)
  <1>1. IsSet(NoRules)
    BY DEF IsSet, NoRules
  <1>2. ASSUME NEW t \in Texts, Ok(t) PROVE IsSet(compile(t.file))
    <2>. DEFINE f == t.file
                set == compile(f)
                n == Len(f.rules)
    <2>1. /\ n \in Nat /\ DOMAIN f.rules = 1..n
          /\ \A i \in DOMAIN f.rules : IsRule(f.rules[i])
      BY RulesEngineAssumption
    <2>2. /\ DOMAIN set.rules = 1..n
          /\ \A i \in 1..n : set.rules[i] = Normalized(f.rules[i])
      BY <2>1 DEF compile
    <2>3. Len(set.rules) = n
      <3>1. set.rules = [i \in 1..n |-> Normalized(f.rules[i])]
        BY <2>1 DEF compile
      <3>. HIDE DEF n, set
      <3>. QED
        BY <2>1, <3>1
    <2>4. ASSUME NEW i \in 1..n
          PROVE  /\ f.rules[i].action.type \in Actions
                 /\ f.rules[i].direction \in {"request", "response"}
                 /\ \A j \in 1..n : f.rules[i].id = f.rules[j].id => i = j
      BY <1>2, <2>1, <2>4 DEF Ok, Accepted, compileRule, compileAction, Actions
    <2>5. ASSUME NEW i \in 1..n, NEW m, Looks(set.rules[i], m) PROVE Needs(set, m)
      <3>1. f.rules[i].enabled /\ f.rules[i].direction = m.direction /\ needsBody(f.rules[i])
        BY <2>1, <2>2, <2>5, NormalizedKeeps DEF Looks
      <3>2. needs(f, m.direction)
        BY <2>1, <2>5, <3>1 DEF needs
      <3>3. m.direction \in {"request", "response"}
        BY <2>4, <3>1
      <3>. QED
        BY <3>2, <3>3 DEF Needs, compile
    <2>6. ASSUME NEW i \in 1..n
          PROVE  /\ set.rules[i].action.type \in Actions
                 /\ \A j \in 1..n : set.rules[i].id = set.rules[j].id => i = j
      <3>1. \A j \in 1..n : /\ set.rules[j].id = f.rules[j].id
                            /\ set.rules[j].action = f.rules[j].action
        BY <2>1, <2>2, NormalizedKeeps
      <3>. HIDE DEF f, set, n
      <3>. QED
        BY <2>4, <2>6, <3>1
    <2>. HIDE DEF f, set, n
    <2>7. IsSet(set)
      BY <2>1, <2>2, <2>3, <2>5, <2>6 DEF IsSet
    <2>. QED
      BY <2>7 DEF set, f
  <1>. QED
    BY <1>1, <1>2 DEF Compiled

\* A message whose body was not buffered.
Unread(msg) == [msg EXCEPT !.body = {}]

LEMMA UnreadIs ==
  ASSUME NEW m, IsMessage(m)
  PROVE  /\ IsMessage(Unread(m)) /\ Unread(m).body = {}
         /\ Unread(m).header = m.header /\ Unread(m).status = m.status
  BY DEF IsMessage, Unread

\* An action that is not about the body leaves it alone.
LEMMA OtherActions ==
  ASSUME NEW a, a.type \in Actions, ~BodyAction(a), NEW m, IsMessage(m)
  PROVE  /\ IsMessage(apply(a, m)) /\ apply(a, m).body = m.body
         /\ apply(a, Unread(m)) = Unread(apply(a, m))
  <1>1. CASE a.type = "replace_header"
    BY <1>1 DEF apply, IsMessage, Unread
  <1>2. CASE a.type = "add_header"
    BY <1>2 DEF apply, IsMessage, Unread
  <1>3. CASE a.type = "remove_header"
    BY <1>3 DEF apply, IsMessage, Unread
  <1>4. CASE a.type = "set_status"
    BY <1>4 DEF apply, IsMessage, Unread
  <1>. QED
    BY <1>1, <1>2, <1>3, <1>4 DEF Actions, BodyAction

\* Nor does a condition that is not about the body look at it.
LEMMA OtherMatches ==
  ASSUME NEW rule, ~needsBody(rule), NEW m, IsMessage(m), NEW dir, NEW req
  PROVE  matches(rule, dir, req, Unread(m), FALSE)
           <=> matches(rule, dir, req, m, TRUE)
  <1>. DEFINE n == Unread(m)
  <1>1. n.header = m.header /\ n.status = m.status
    BY UnreadIs
  <1>. HIDE DEF n
  <1>2. ASSUME NEW i \in DOMAIN rule.conditions
        PROVE  conditionMatches(rule.conditions[i], n)
                 <=> conditionMatches(rule.conditions[i], m)
    <2>1. rule.conditions[i].type # "body"
      BY DEF needsBody
    <2>. QED
      BY <1>1, <2>1 DEF conditionMatches
  <1>3. matches(rule, dir, req, n, FALSE) <=> matches(rule, dir, req, m, TRUE)
    BY <1>2 DEF matches
  <1>. QED
    BY <1>3 DEF n

-----------------------------------------------------------------------------
(* What holds of a message after the first n rules of a set.               *)

\* The ids of those of the first n rules that need not look at the body.
Blind(set, n) == {set.rules[i].id : i \in {j \in 1..n : ~needsBody(set.rules[j])}}

\* Only they fire on a body that was not buffered.
LEMMA Unbuffered ==
  ASSUME NEW set, IsSet(set), NEW m, IsMessage(m.msg)
  PROVE  \A n \in 0..Len(set.rules) :
           /\ IsMessage(At(set, m, FALSE, n).msg) /\ At(set, m, FALSE, n).msg.body = {}
           /\ At(set, m, FALSE, n).fired \in Seq(Blind(set, n))
  <1>. DEFINE Len0 == Len(set.rules)
              r(n) == At(set, m, FALSE, n)
              Good(n) == IsMessage(r(n).msg) /\ r(n).msg.body = {} /\ r(n).fired \in Seq(Blind(set, n))
              C == {n \in 0..Len0 : ~Good(n)}
  <1>. SUFFICES ASSUME C # {} PROVE FALSE
    OBVIOUS
  <1>1. Len0 \in Nat /\ DOMAIN set.rules = 1..Len0
    BY DEF IsSet
  <1>2. PICK n \in C : \A k \in C : n <= k
    <2>. HIDE DEF Good
    <2>1. C \in SUBSET Nat
      BY <1>1
    <2>. HIDE DEF C
    <2>. QED
      BY <2>1, LeastNat
  <1>3. CASE n = 0
    <2>1. r(0) = [msg |-> Unread(m.msg), fired |-> <<>>]
      BY <1>1, AtStep DEF Start, Seen, Unread
    <2>. HIDE DEF r
    <2>2. IsMessage(r(0).msg) /\ r(0).msg.body = {}
      <3>1. r(0).msg = Unread(m.msg)
        BY <2>1
      <3>. QED
        BY <3>1, UnreadIs
    <2>3. r(0).fired \in Seq(Blind(set, 0))
      <3>1. r(0).fired = <<>>
        BY <2>1
      <3>. QED
        BY <3>1, EmptySeq
    <2>. QED
      BY <1>2, <1>3, <2>2, <2>3
  <1>4. CASE n # 0
    <2>. DEFINE rule == set.rules[n]
                q == r(n - 1)
    <2>1. n \in 1..Len0 /\ n - 1 \in 0..Len0
      BY <1>1, <1>2, <1>4
    <2>2. Good(n - 1)
      <3>1. n - 1 \notin C
        <4>1. ~(n <= n - 1)
          BY <1>1, <2>1
        <4>. HIDE DEF C
        <4>. QED
          BY <1>2, <4>1
      <3>. QED
        BY <2>1, <3>1
    <2>3. r(n) = Turn(rule, m.direction, m.req, FALSE, q)
      <3>. HIDE DEF Good, C
      <3>. QED
        BY <1>1, <2>1, AtStep
    <2>4. Blind(set, n - 1) \subseteq Blind(set, n)
      BY <2>1 DEF Blind
    <2>. HIDE DEF r
    <2>5. CASE matches(rule, m.direction, m.req, q.msg, FALSE)
      <3>1. ~needsBody(rule) /\ ~BodyAction(rule.action) /\ rule.action.type \in Actions
        BY <1>1, <2>1, <2>5 DEF matches, needsBody, IsSet
      <3>2. r(n).msg = apply(rule.action, q.msg) /\ r(n).fired = Append(q.fired, rule.id)
        BY <2>3, <2>5 DEF Turn
      <3>3. IsMessage(r(n).msg) /\ r(n).msg.body = {}
        <4>1. IsMessage(q.msg) /\ q.msg.body = {}
          BY <2>2
        <4>. HIDE DEF q, rule
        <4>2. IsMessage(apply(rule.action, q.msg)) /\ apply(rule.action, q.msg).body = {}
          BY <3>1, <4>1, OtherActions
        <4>. QED
          BY <3>2, <4>2
      <3>4. rule.id \in Blind(set, n)
        BY <2>1, <3>1 DEF Blind
      <3>5. q.fired \in Seq(Blind(set, n))
        BY <2>2, <2>4, SeqMonotonic
      <3>6. r(n).fired \in Seq(Blind(set, n))
        BY <3>2, <3>4, <3>5
      <3>. QED
        BY <1>2, <3>3, <3>6
    <2>6. CASE ~matches(rule, m.direction, m.req, q.msg, FALSE)
      <3>1. r(n) = q
        BY <2>3, <2>6 DEF Turn
      <3>2. q.fired \in Seq(Blind(set, n))
        BY <2>2, <2>4, SeqMonotonic
      <3>. QED
        BY <1>2, <2>2, <3>1, <3>2
    <2>. QED
      BY <2>5, <2>6
  <1>. QED
    BY <1>3, <1>4

\* Two results that differ by the body only, which is still the message's.
SameBut(with, without, m) ==
  /\ DOMAIN with = {"msg", "fired"}
  /\ IsMessage(with.msg) /\ with.msg.body = m.msg.body
  /\ without = [msg |-> Unread(with.msg), fired |-> with.fired]

\* With a body that no enabled rule of the direction looks at, the same rules fire
\* and do the same as without it.
LEMMA SameWithout ==
  ASSUME NEW set, IsSet(set), NEW m, IsMessage(m.msg), ~Needs(set, m)
  PROVE  \A n \in 0..Len(set.rules) :
           SameBut(At(set, m, TRUE, n), At(set, m, FALSE, n), m)
  <1>. DEFINE Len0 == Len(set.rules)
              f(n) == At(set, m, TRUE, n)
              g(n) == At(set, m, FALSE, n)
              Good(n) == SameBut(f(n), g(n), m)
              C == {n \in 0..Len0 : ~Good(n)}
  <1>. SUFFICES ASSUME C # {} PROVE FALSE
    OBVIOUS
  <1>1. Len0 \in Nat /\ DOMAIN set.rules = 1..Len0
    BY DEF IsSet
  <1>2. PICK n \in C : \A k \in C : n <= k
    <2>. HIDE DEF Good
    <2>1. C \in SUBSET Nat
      BY <1>1
    <2>. HIDE DEF C
    <2>. QED
      BY <2>1, LeastNat
  <1>3. CASE n = 0
    <2>1. f(0) = [msg |-> m.msg, fired |-> <<>>]
      <3>1. f(0) = Start(m, TRUE)
        BY <1>1, AtStep
      <3>. QED
        BY <3>1 DEF Start, Seen, Unread
    <2>2. g(0) = [msg |-> Unread(m.msg), fired |-> <<>>]
      <3>1. g(0) = Start(m, FALSE)
        BY <1>1, AtStep
      <3>. QED
        BY <3>1 DEF Start, Seen, Unread
    <2>. HIDE DEF f, g
    <2>3. Good(0)
      BY <2>1, <2>2 DEF SameBut
    <2>. QED
      BY <1>2, <1>3, <2>3
  <1>4. CASE n # 0
    <2>. DEFINE rule == set.rules[n]
                q == f(n - 1)
    <2>1. n \in 1..Len0 /\ n - 1 \in 0..Len0
      BY <1>1, <1>2, <1>4
    <2>2. Good(n - 1)
      <3>1. n - 1 \notin C
        <4>1. ~(n <= n - 1)
          BY <1>1, <2>1
        <4>. HIDE DEF C
        <4>. QED
          BY <1>2, <4>1
      <3>. QED
        BY <2>1, <3>1
    <2>3. /\ f(n) = Turn(rule, m.direction, m.req, TRUE, q)
          /\ g(n) = Turn(rule, m.direction, m.req, FALSE, g(n - 1))
      BY <1>1, <2>1, AtStep
    <2>. HIDE DEF f, g
    <2>. DEFINE dir == m.direction
                on == matches(rule, dir, m.req, q.msg, TRUE)
    <2>4. /\ IsMessage(q.msg) /\ q.msg.body = m.msg.body
          /\ g(n - 1) = [msg |-> Unread(q.msg), fired |-> q.fired]
      BY <2>2 DEF SameBut
    <2>5. CASE needsBody(rule)
      <3>1. ~(rule.enabled /\ rule.direction = dir)
        BY <1>1, <2>1, <2>5 DEF IsSet, Looks
      <3>2. f(n) = q /\ g(n) = g(n - 1)
        BY <2>3, <3>1 DEF Turn, matches
      <3>. QED
        BY <1>2, <2>2, <3>2
    <2>6. CASE ~needsBody(rule)
      <3>1. rule.action.type \in Actions /\ ~BodyAction(rule.action)
        BY <1>1, <2>1, <2>6 DEF needsBody, IsSet
      <3>2. matches(rule, dir, m.req, g(n - 1).msg, FALSE) <=> on
        <4>. HIDE DEF q, rule, dir
        <4>1. g(n - 1).msg = Unread(q.msg)
          BY <2>4
        <4>2. matches(rule, dir, m.req, Unread(q.msg), FALSE)
                <=> matches(rule, dir, m.req, q.msg, TRUE)
          BY <2>4, <2>6, OtherMatches
        <4>. QED
          BY <4>1, <4>2
      <3>3. CASE on
        <4>1. f(n) = [msg |-> apply(rule.action, q.msg), fired |-> Append(q.fired, rule.id)]
          BY <2>3, <3>3 DEF Turn
        <4>2. g(n) = [msg |-> apply(rule.action, Unread(q.msg)),
                      fired |-> Append(q.fired, rule.id)]
          <5>1. g(n) = [msg |-> apply(rule.action, g(n - 1).msg),
                        fired |-> Append(g(n - 1).fired, rule.id)]
            BY <2>3, <3>2, <3>3 DEF Turn
          <5>. HIDE DEF q, rule
          <5>2. g(n - 1).msg = Unread(q.msg) /\ g(n - 1).fired = q.fired
            BY <2>4
          <5>. QED
            BY <5>1, <5>2
        <4>3. /\ IsMessage(apply(rule.action, q.msg))
              /\ apply(rule.action, q.msg).body = m.msg.body
              /\ apply(rule.action, Unread(q.msg))
                   = Unread(apply(rule.action, q.msg))
          BY <2>4, <3>1, OtherActions
        <4>4. Good(n)
          <5>. HIDE DEF q, rule
          <5>1. /\ DOMAIN f(n) = {"msg", "fired"} /\ f(n).msg = apply(rule.action, q.msg)
                /\ f(n).fired = Append(q.fired, rule.id)
            BY <4>1
          <5>. QED
            BY <4>2, <4>3, <5>1 DEF SameBut
        <4>. QED
          BY <1>2, <4>4
      <3>4. CASE ~on
        <4>1. f(n) = q /\ g(n) = g(n - 1)
          BY <2>3, <3>2, <3>4 DEF Turn
        <4>. QED
          BY <1>2, <2>2, <4>1
      <3>. QED
        BY <3>3, <3>4
    <2>. QED
      BY <2>5, <2>6
  <1>. QED
    BY <1>3, <1>4

-----------------------------------------------------------------------------
(* The exchange.                                                           *)

\* What the exchange has is what the rules before ex.next of one set made of its
\* message, as it was seen when the set was taken.
ExInv ==
  /\ active \in Compiled
  /\ DOMAIN ex = {"pc", "of", "body", "set", "next", "r"}
  /\ ex.pc \in {"ask", "apply", "rules", "done"}
  /\ ex.of \in Messages /\ ex.body \in BOOLEAN /\ ex.set \in Compiled
  /\ ex.pc = "ask" => ex.next = 1 /\ ex.r = [msg |-> ex.of.msg, fired |-> <<>>]
  /\ ex.pc = "apply" => ex.next = 1 /\ ex.r = Start(ex.of, ex.body)
  /\ ex.pc \in {"rules", "done"} =>
       /\ ex.next \in 1..(Len(ex.set.rules) + 1)
       /\ ex.r = At(ex.set, ex.of, ex.body, ex.next - 1)
  /\ ex.pc = "done" => ex.next = Len(ex.set.rules) + 1

LEMMA NewExchangeEx ==
  ASSUME active' \in Compiled, NEW m \in Messages, ex' = NewExchange(m) PROVE ExInv'
  BY DEF NewExchange, ExInv, Compiled

\* The engine's part: only compiled sets become active.
LEMMA ActiveIsCompiled ==
  ASSUME Inv, active \in Compiled, [Next]_vars PROVE active' \in Compiled
  <1>1. ASSUME NEW s \in Savers, Activate(s) PROVE active' \in Compiled
    BY <1>1 DEF Activate, Inv, TextAt, Compiled
  <1>2. \A t : t = file /\ t # Missing /\ Ok(t) => compile(t.file) \in Compiled
    BY DEF Inv, FileAt, Compiled
  <1>3. ASSUME NEW s \in Savers, Load(s) PROVE active' \in Compiled
    BY <1>2, <1>3 DEF Load, Compiled
  <1>4. CASE Restart
    BY <1>2, <1>4 DEF Restart, Compiled
  <1>5. ASSUME NEW s \in Savers, Save(s) \/ Lock(s) \/ Write(s) \/ Rename(s) \/ StartLoad(s)
        PROVE  active' = active
    BY <1>5 DEF Save, Lock, Write, Rename, StartLoad
  <1>6. CASE HandEdit \/ Exchange \/ UNCHANGED vars
    BY <1>6 DEF HandEdit, Exchange, Ask, Apply, ApplyRule, Applied, vars
  <1>. QED
    BY <1>1, <1>3, <1>4, <1>5, <1>6 DEF Next, Saver

LEMMA ExchangeEx ==
  ASSUME ExInv, active' \in Compiled, Exchange PROVE ExInv'
  <1>. USE DEF ExInv
  <1>1. CASE Ask
    <2>1. PICK body \in BOOLEAN :
            ex' = [ex EXCEPT !.pc = "apply", !.body = body, !.r.msg = Seen(ex.of.msg, body)]
      BY <1>1 DEF Ask, Needs, Compiled, NoRules, compile, needs
    <2>2. ex.pc = "ask" /\ ex.next = 1 /\ ex.r = [msg |-> ex.of.msg, fired |-> <<>>]
      BY <1>1 DEF Ask
    <2>3. /\ DOMAIN ex' = DOMAIN ex /\ ex'.pc = "apply" /\ ex'.of = ex.of /\ ex'.body = body
          /\ ex'.set = ex.set /\ ex'.next = 1
          /\ ex'.r = [ex.r EXCEPT !.msg = Seen(ex.of.msg, body)]
      BY <2>1, <2>2
    <2>4. ex'.r = Start(ex'.of, ex'.body)
      BY <2>2, <2>3 DEF Start
    <2>. QED
      BY <2>3, <2>4
  <1>2. CASE Apply
    <2>1. /\ DOMAIN ex' = DOMAIN ex /\ ex'.pc = "rules" /\ ex'.of = ex.of /\ ex'.body = ex.body
          /\ ex'.set = active /\ ex'.next = 1 /\ ex'.r = Start(ex.of, ex.body)
      BY <1>2 DEF Apply
    <2>2. Len(active.rules) \in Nat
      BY CompiledIsSet DEF IsSet
    <2>3. ex'.r = At(active, ex.of, ex.body, 0)
      BY <2>1, <2>2, AtStep
    <2>. QED
      BY <1>2, <2>1, <2>2, <2>3 DEF Apply
  <1>3. CASE ApplyRule
    <2>. DEFINE n == ex.next
    <2>1. IsSet(ex.set)
      BY CompiledIsSet
    <2>2. n \in 1..Len(ex.set.rules) /\ Len(ex.set.rules) \in Nat
      BY <1>3, <2>1 DEF ApplyRule, IsSet
    <2>3. ex.r = At(ex.set, ex.of, ex.body, n - 1)
      BY <1>3 DEF ApplyRule
    <2>4. /\ DOMAIN ex' = DOMAIN ex /\ ex'.pc = "rules" /\ ex'.of = ex.of /\ ex'.body = ex.body
          /\ ex'.set = ex.set /\ ex'.next = n + 1
          /\ ex'.r = Turn(ex.set.rules[n], ex.of.direction, ex.of.req, ex.body, ex.r)
      BY <1>3 DEF ApplyRule
    <2>5. ex'.r = At(ex.set, ex.of, ex.body, n)
      <3>. HIDE DEF n, ExInv
      <3>1. At(ex.set, ex.of, ex.body, n) =
              Turn(ex.set.rules[n], ex.of.direction, ex.of.req, ex.body,
                   At(ex.set, ex.of, ex.body, n - 1))
        BY <2>2, AtStep
      <3>. QED
        BY <2>3, <2>4, <3>1
    <2>6. n + 1 \in 1..(Len(ex.set.rules) + 1) /\ (n + 1) - 1 = n
      BY <2>2
    <2>. QED
      BY <2>4, <2>5, <2>6
  <1>4. CASE Applied
    <2>1. IsSet(ex.set) /\ ex.next = Len(ex.set.rules) + 1
      <3>1. IsSet(ex.set)
        BY CompiledIsSet
      <3>. QED
        BY <1>4, <3>1 DEF Applied, IsSet
    <2>2. /\ DOMAIN ex' = DOMAIN ex /\ ex'.pc = "done" /\ ex'.of = ex.of /\ ex'.body = ex.body
          /\ ex'.set = ex.set /\ ex'.next = ex.next /\ ex'.r = ex.r
      BY <1>4 DEF Applied
    <2>. QED
      BY <1>4, <2>1, <2>2 DEF Applied
  <1>. QED
    BY <1>1, <1>2, <1>3, <1>4 DEF Exchange

LEMMA InitEx == Init => ExInv
  BY DEF Init, NewExchange, ExInv, Compiled

LEMMA NextEx == Inv /\ ExInv /\ [Next]_vars => ExInv'
  <1>. SUFFICES ASSUME Inv, ExInv, [Next]_vars PROVE ExInv'
    OBVIOUS
  <1>1. active' \in Compiled
    BY ActiveIsCompiled DEF ExInv
  <1>2. CASE Exchange
    BY <1>1, <1>2, ExchangeEx
  <1>3. CASE Restart
    BY <1>1, <1>3, NewExchangeEx DEF Restart
  <1>4. CASE (\E s \in Savers : Save(s) \/ Saver(s)) \/ HandEdit \/ UNCHANGED vars
    <2>1. ex' = ex
      BY <1>4 DEF Saver, Save, Lock, Write, Rename, Activate, StartLoad, Load, HandEdit, vars
    <2>. QED
      BY <1>1, <2>1 DEF ExInv
  <1>. QED
    BY <1>2, <1>3, <1>4 DEF Next

\* A message meets all the rules of one set, in their order, for sets of any length and
\* whatever is saved, reloaded or edited while they are gone through (engine.go: the
\* set is taken once, and never changed in place).
THEOREM RulesOfOneSet == Spec => []OneSetPerMessage
  <1>1. ExInv => OneSetPerMessage
    <2>. SUFFICES ASSUME ExInv, ex.pc = "done" PROVE ex.r = Run(ex.set, ex.body)
      BY DEF OneSetPerMessage
    <2>1. Len(ex.set.rules) \in Nat
      BY CompiledIsSet DEF ExInv, IsSet
    <2>2. ex.r = At(ex.set, ex.of, ex.body, Len(ex.set.rules))
      <3>1. (Len(ex.set.rules) + 1) - 1 = Len(ex.set.rules)
        BY <2>1
      <3>. QED
        BY <3>1 DEF ExInv
    <2>. QED
      BY <2>2, RunIsAt
  <1>. QED
    BY <1>1, InitInv, InitEx, NextInv, NextEx, PTL DEF Spec

\* A body that was not buffered is never replaced and no rule that looks at bodies
\* fires, whichever set the exchange meets after it was asked about its body.
THEOREM UnbufferedBodyStays == Spec => []BodyUntouchedUnbuffered
  <1>1. ExInv => BodyUntouchedUnbuffered
    <2>. SUFFICES ASSUME ExInv, ex.pc \in {"rules", "done"}, ~ex.body
                  PROVE  /\ ex.r.msg.body = {}
                         /\ \A i \in DOMAIN ex.set.rules :
                              needsBody(ex.set.rules[i]) => ~Contains(ex.r.fired, ex.set.rules[i].id)
      BY DEF BodyUntouchedUnbuffered
    <2>. DEFINE n == ex.next - 1
                ids == Blind(ex.set, n)
    <2>1. IsSet(ex.set) /\ IsMessage(ex.of.msg)
      BY CompiledIsSet, RulesEngineAssumption DEF ExInv
    <2>2. n \in 0..Len(ex.set.rules) /\ DOMAIN ex.set.rules = 1..Len(ex.set.rules)
      BY <2>1 DEF ExInv, IsSet
    <2>3. ex.r = At(ex.set, ex.of, FALSE, n)
      BY DEF ExInv
    <2>4. ex.r.msg.body = {} /\ ex.r.fired \in Seq(ids)
      <3>1. \A k \in 0..Len(ex.set.rules) :
              /\ At(ex.set, ex.of, FALSE, k).msg.body = {}
              /\ At(ex.set, ex.of, FALSE, k).fired \in Seq(Blind(ex.set, k))
        BY <2>1, Unbuffered
      <3>. HIDE DEF n
      <3>. QED
        BY <2>2, <2>3, <3>1
    <2>5. ASSUME NEW i \in DOMAIN ex.set.rules, needsBody(ex.set.rules[i]),
                 Contains(ex.r.fired, ex.set.rules[i].id)
          PROVE  FALSE
      <3>1. PICK k \in 1..Len(ex.r.fired) : ex.r.fired[k] = ex.set.rules[i].id
        BY <2>5 DEF Contains
      <3>2. ex.r.fired[k] \in ids
        BY <2>4, <3>1, ElementOfSeq
      <3>3. PICK j \in 1..n : ~needsBody(ex.set.rules[j]) /\ ex.set.rules[j].id = ex.set.rules[i].id
        BY <3>1, <3>2 DEF Blind
      <3>4. j \in DOMAIN ex.set.rules
        BY <2>2
      <3>5. i = j
        BY <2>1, <3>3, <3>4 DEF IsSet
      <3>. QED
        BY <2>5, <3>3, <3>5
    <2>. QED
      BY <2>4, <2>5
  <1>. QED
    BY <1>1, InitInv, InitEx, NextInv, NextEx, PTL DEF Spec

\* Whatever the accepted rules are: if compile says that a direction does not need
\* the body, buffering it makes no difference to what the rules do.
THEOREM NeedsSuffices == Spec => []NeedsIsEnough
  <1>1. ExInv => NeedsIsEnough
    <2>. SUFFICES ASSUME ExInv, ~Needs(ex.set, ex.of)
                  PROVE  LET with == Run(ex.set, TRUE)
                         IN /\ with.msg.body = ex.of.msg.body
                            /\ [with EXCEPT !.msg.body = {}] = Run(ex.set, FALSE)
      BY DEF NeedsIsEnough
    <2>. DEFINE n == Len(ex.set.rules)
                with == At(ex.set, ex.of, TRUE, n)
                without == At(ex.set, ex.of, FALSE, n)
    <2>1. IsSet(ex.set) /\ IsMessage(ex.of.msg)
      BY CompiledIsSet, RulesEngineAssumption DEF ExInv
    <2>2. n \in 0..n
      BY <2>1 DEF IsSet
    <2>3. /\ DOMAIN with = {"msg", "fired"} /\ with.msg.body = ex.of.msg.body
          /\ without = [msg |-> Unread(with.msg), fired |-> with.fired]
      <3>. DEFINE set == ex.set
                  m == ex.of
      <3>. HIDE DEF n, set, m
      <3>1. IsSet(set) /\ IsMessage(m.msg) /\ ~Needs(set, m) /\ n \in 0..Len(set.rules)
        BY <2>1, <2>2 DEF n, set, m
      <3>2. SameBut(At(set, m, TRUE, n), At(set, m, FALSE, n), m)
        BY <3>1, SameWithout
      <3>. QED
        BY <3>2 DEF set, m, SameBut
    <2>4. Run(ex.set, TRUE) = with /\ Run(ex.set, FALSE) = without
      BY RunIsAt
    <2>5. [with EXCEPT !.msg.body = {}] = [msg |-> Unread(with.msg), fired |-> with.fired]
      <3>. DEFINE quiet == Unread(with.msg)
      <3>1. [with EXCEPT !.msg.body = {}] = [with EXCEPT !.msg = quiet]
        BY DEF Unread
      <3>. HIDE DEF with, quiet
      <3>2. [with EXCEPT !.msg = quiet] = [msg |-> quiet, fired |-> with.fired]
        BY <2>3
      <3>. QED
        BY <3>1, <3>2 DEF quiet
    <2>. QED
      BY <2>3, <2>4, <2>5
  <1>. QED
    BY <1>1, InitInv, InitEx, NextInv, NextEx, PTL DEF Spec

=============================================================================
