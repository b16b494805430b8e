----------------------------- MODULE StartupProofs -----------------------------
(***************************************************************************)
(* However many processes start at once, and wherever they crash or fail:  *)
(* there is one CA, the one of the certificate file.  And as long as only  *)
(* one process serves, the database's version tells what is in it.         *)
(***************************************************************************)
EXTENDS Startup, TLAPS

-----------------------------------------------------------------------------
(* The CA.  UsedIsTheCert is inductive with two facts more: a CA is of one *)
(* start, and a process that has created the key file and not yet the      *)
(* certificate is the only such one, so that nobody else removes its key   *)
(* or writes beside it.                                                    *)

Creating == {"fillKey", "writeCert", "fillCert", "removeKey"}

StartsAt ==
  /\ key \in [of : 0..starts, whole : BOOLEAN]
  /\ cert \in [of : 0..starts, whole : BOOLEAN]
  /\ \A p \in Procs : own[p] \in 0..starts /\ (pc[p] # "off" => own[p] # 0)
  /\ \A p, q \in Procs : own[p] = own[q] /\ own[p] # 0 => p = q
  /\ key.whole => key.of # 0

CreatingAt ==
  /\ \A p \in Procs : pc[p] \in Creating => key = [of |-> own[p], whole |-> pc[p] # "fillKey"]
  /\ \A p \in Procs : pc[p] = "fillCert" => cert = [of |-> own[p], whole |-> FALSE]

\* Before a process writes its certificate, there is none of its own.
CertAt ==
  \A p \in Procs :
    pc[p] \in {"version", "migrate", "key", "cert", "writeKey", "fillKey", "writeCert"}
      => cert.of # own[p]

UsedAt ==
  /\ UsedIsTheCert
  /\ \A p \in Procs : pc[p] = "export" => used[p] # 0
  /\ exported # 0 => cert = [of |-> exported, whole |-> TRUE]

CAInv ==
  /\ starts \in Nat
  /\ pc \in [Procs -> Places] /\ own \in [Procs -> Nat] /\ used \in [Procs -> Nat]
  /\ StartsAt /\ CreatingAt /\ CertAt /\ UsedAt

LEMMA CAInitInv == Init => CAInv
  <1>. SUFFICES ASSUME Init PROVE CAInv
    OBVIOUS
  <1>1. pc \in [Procs -> Places] /\ own \in [Procs -> Nat] /\ used \in [Procs -> Nat]
    BY DEF Init, Places
  <1>2. StartsAt /\ CreatingAt /\ CertAt /\ UsedAt
    BY DEF Init, StartsAt, CreatingAt, CertAt, UsedAt, UsedIsTheCert, NoFile, Creating
  <1>. QED
    BY <1>1, <1>2 DEF CAInv, Init

\* One process at most creates.
LEMMA OneCreates ==
  ASSUME CAInv, NEW p \in Procs, NEW q \in Procs, pc[p] \in Creating, pc[q] \in Creating
  PROVE  p = q
  <1>1. own[p] = own[q]
    BY DEF CAInv, CreatingAt
  <1>2. own[p] # 0
    BY DEF CAInv, StartsAt, Creating
  <1>. QED
    BY <1>1, <1>2 DEF CAInv, StartsAt

\* A certificate that is whole is nobody's to fill, and stays as it is.
LEMMA WholeIsKept ==
  ASSUME CAInv, cert.whole, [Next]_vars
  PROVE  cert' = cert
  <1>1. cert # NoFile
    BY DEF NoFile
  <1>2. CASE UNCHANGED vars
    BY <1>2 DEF vars, caVars
  <1>3. ASSUME NEW p \in Procs, WriteCert(p) \/ FillCert(p)
        PROVE  cert' = cert
    BY <1>1, <1>3 DEF WriteCert, FillCert, CAInv, CreatingAt
  <1>4. ASSUME NEW p \in Procs,
               \/ Start(p) \/ Crash(p)
               \/ ReadVersion(p) \/ Migrate(p) \/ Opened(p)
               \/ KeyExists(p) \/ CertExists(p) \/ WriteKey(p) \/ FillKey(p)
               \/ RemoveKey(p) \/ Load(p) \/ ExportCert(p) \/ Serve(p)
        PROVE  cert' = cert
    BY <1>4 DEF Start, Crash, Exit, ReadVersion, Migrate, Opened, KeyExists, CertExists, WriteKey,
                FillKey, RemoveKey, Load, ExportCert, Serve, caVars
  <1>. QED
    BY <1>2, <1>3, <1>4 DEF Next

\* The key that goes with it is removed by the process that created it, if at all.
LEMMA KeyOfWhole ==
  ASSUME CAInv, cert.whole, key.of = cert.of, key.of # 0, [Next]_vars, key' # key
  PROVE  \E p \in Procs : own[p] = key.of /\ pc[p] = "removeKey" /\ key' = NoFile
  <1>1. key # NoFile
    BY DEF NoFile
  <1>2. ASSUME NEW p \in Procs, FillKey(p) PROVE FALSE
    <2>1. pc[p] = "fillKey"
      BY <1>2 DEF FillKey
    <2>2. key.of = own[p] /\ cert.of # own[p]
      BY <2>1 DEF CAInv, CreatingAt, CertAt, Creating
    <2>. QED
      BY <2>2
  <1>3. ASSUME NEW p \in Procs, RemoveKey(p)
        PROVE  own[p] = key.of /\ pc[p] = "removeKey" /\ key' = NoFile
    <2>1. pc[p] = "removeKey" /\ key' = NoFile
      BY <1>3 DEF RemoveKey
    <2>2. key.of = own[p]
      BY <2>1 DEF CAInv, CreatingAt, Creating
    <2>. QED
      BY <2>1, <2>2
  <1>4. ASSUME NEW p \in Procs,
               \/ Start(p) \/ Crash(p)
               \/ ReadVersion(p) \/ Migrate(p) \/ Opened(p)
               \/ KeyExists(p) \/ CertExists(p) \/ WriteKey(p) \/ WriteCert(p)
               \/ FillCert(p) \/ Load(p) \/ ExportCert(p) \/ Serve(p)
        PROVE  key' = key
    BY <1>1, <1>4
    DEF Start, Crash, Exit, ReadVersion, Migrate, Opened, KeyExists, CertExists, WriteKey,
        WriteCert, FillCert, Load, ExportCert, Serve, caVars
  <1>5. ~UNCHANGED vars
    BY DEF vars, caVars
  <1>. QED
    BY <1>2, <1>3, <1>4, <1>5 DEF Next

Early == {"version", "migrate", "key", "cert", "writeKey"}

\* A process that only goes on, or stops, leaves the CA and what is known of it.
LEMMA QuietInv ==
  ASSUME CAInv, NEW p \in Procs, NEW l \in Places,
         pc' = [pc EXCEPT ![p] = l],
         l \notin Creating \cup {"export"},
         l \in Early => pc[p] \in Early,
         l # "off" => pc[p] # "off",
         used' = used \/ used' = [used EXCEPT ![p] = 0],
         UNCHANGED <<key, cert, exported, starts, own>>
  PROVE  CAInv'
  <1>1. \A q \in Procs : pc'[q] = (IF q = p THEN l ELSE pc[q])
    BY DEF CAInv
  <1>2. \A q \in Procs : used'[q] \in {0, used[q]} /\ (q # p => used'[q] = used[q])
    BY DEF CAInv
  <1>3. pc' \in [Procs -> Places] /\ used' \in [Procs -> Nat]
    BY DEF CAInv
  <1>4. StartsAt'
    BY <1>1 DEF CAInv, StartsAt
  <1>5. CreatingAt'
    BY <1>1 DEF CAInv, CreatingAt, Creating
  <1>6. CertAt'
    BY <1>1 DEF CAInv, CertAt, Creating, Early
  <1>7. UsedAt'
    BY <1>1, <1>2 DEF CAInv, UsedAt, UsedIsTheCert
  <1>. QED
    BY <1>3, <1>4, <1>5, <1>6, <1>7 DEF CAInv

LEMMA GoesOnInv ==
  ASSUME CAInv, NEW p \in Procs,
         \/ Crash(p) \/ ReadVersion(p) \/ Migrate(p) \/ Opened(p)
         \/ KeyExists(p) \/ CertExists(p) \/ Serve(p)
  PROVE  CAInv'
  <1>0. "off" \in Places /\ "off" \notin Creating \cup Early \cup {"export"}
    BY DEF Places, Creating, Early
  <1>1. CASE Exit(p) /\ pc[p] # "off"
    BY <1>0, <1>1, QuietInv DEF Exit, Goto, caVars
  <1>2. CASE UNCHANGED <<pc, caVars, starts, keyExists, own, used>>
    BY <1>2 DEF CAInv, StartsAt, CreatingAt, CertAt, UsedAt, UsedIsTheCert, caVars
  <1>3. ASSUME NEW l \in {"migrate", "key", "cert", "load", "writeKey", "serving"},
               Goto(p, l), pc[p] # "off", l \in Early => pc[p] \in Early,
               UNCHANGED <<caVars, starts, own, used>>
        PROVE  CAInv'
    <2>1. l \in Places /\ l \notin Creating \cup {"export"}
      BY DEF Places, Creating
    <2>. QED
      BY <1>3, <2>1, QuietInv DEF Goto, caVars
  <1>4. CASE Crash(p)
    BY <1>1, <1>4 DEF Crash
  <1>5. CASE ReadVersion(p)
    BY <1>1, <1>3, <1>5 DEF ReadVersion, Early
  <1>6. CASE Migrate(p)
    BY <1>1, <1>2, <1>6 DEF Migrate
  <1>7. CASE Opened(p)
    BY <1>3, <1>7 DEF Opened, Early, localVars
  <1>8. CASE KeyExists(p)
    BY <1>3, <1>8 DEF KeyExists, Early
  <1>9. CASE CertExists(p)
    BY <1>1, <1>3, <1>9 DEF CertExists, Early, localVars
  <1>10. CASE Serve(p)
    BY <1>3, <1>10 DEF Serve, Early, localVars
  <1>. QED
    BY <1>4, <1>5, <1>6, <1>7, <1>8, <1>9, <1>10

\* A new start has a number that nothing has yet.
LEMMA StartInv ==
  ASSUME CAInv, NEW p \in Procs, Start(p)
  PROVE  CAInv'
  <1>. DEFINE l == IF p \in Servers THEN "version" ELSE "key"
  <1>1. /\ pc[p] = "off" /\ starts' = starts + 1 /\ starts' \in Nat
        /\ \A q \in Procs : pc'[q] = (IF q = p THEN l ELSE pc[q])
        /\ \A q \in Procs : own'[q] = (IF q = p THEN starts' ELSE own[q])
        /\ \A q \in Procs : used'[q] = (IF q = p THEN 0 ELSE used[q])
        /\ UNCHANGED <<key, cert, exported>>
    BY DEF Start, Goto, CAInv, caVars
  <1>2. pc' \in [Procs -> Places] /\ own' \in [Procs -> Nat] /\ used' \in [Procs -> Nat]
    BY <1>1 DEF Start, Goto, CAInv, Places
  <1>3. StartsAt'
    BY <1>1 DEF CAInv, StartsAt
  <1>4. CreatingAt'
    BY <1>1 DEF CAInv, CreatingAt, Creating
  <1>5. CertAt'
    <2>1. cert.of # starts'
      BY <1>1 DEF CAInv, StartsAt
    <2>. QED
      BY <1>1, <2>1 DEF CAInv, CertAt
  <1>6. UsedAt'
    BY <1>1 DEF CAInv, UsedAt, UsedIsTheCert
  <1>. QED
    BY <1>1, <1>2, <1>3, <1>4, <1>5, <1>6 DEF CAInv

\* The steps of a creation that change the files.  Nobody else is creating then, and
\* nobody uses a CA unless its certificate is there, and so no other is written.
LEMMA WriteKeyInv ==
  ASSUME CAInv, NEW p \in Procs, WriteKey(p)
  PROVE  CAInv'
  <1>1. CASE Exit(p)
    <2>1. Crash(p)
      BY <1>1 DEF WriteKey, Crash
    <2>. QED
      BY <2>1, GoesOnInv
  <1>2. CASE /\ key = NoFile
             /\ key' = [of |-> own[p], whole |-> FALSE]
             /\ Goto(p, "fillKey")
             /\ UNCHANGED <<dbVars, cert, exported, starts, localVars>>
    <2>1. /\ pc[p] = "writeKey"
          /\ \A q \in Procs : pc'[q] = (IF q = p THEN "fillKey" ELSE pc[q])
          /\ UNCHANGED <<cert, exported, starts, own, used>>
      BY <1>2 DEF WriteKey, Goto, CAInv, localVars
    <2>2. pc' \in [Procs -> Places]
      BY <1>2 DEF Goto, CAInv, Places
    <2>3. ASSUME NEW q \in Procs PROVE pc[q] \notin Creating
      <3>1. ASSUME pc[q] \in Creating PROVE FALSE
        BY <1>2, <3>1 DEF CAInv, StartsAt, CreatingAt, Creating, NoFile
      <3>. QED
        BY <3>1
    <2>4. StartsAt'
      BY <1>2, <2>1 DEF CAInv, StartsAt
    <2>5. CreatingAt'
      BY <1>2, <2>1, <2>3 DEF CAInv, CreatingAt, Creating
    <2>6. CertAt'
      BY <2>1 DEF CAInv, CertAt
    <2>7. UsedAt'
      <3>1. cert.of # own[p] /\ key'.of = own[p]
        BY <1>2, <2>1 DEF CAInv, CertAt
      <3>. QED
        BY <2>1, <3>1 DEF CAInv, UsedAt, UsedIsTheCert
    <2>. QED
      BY <2>1, <2>2, <2>4, <2>5, <2>6, <2>7 DEF CAInv
  <1>. QED
    BY <1>1, <1>2 DEF WriteKey

LEMMA CreatingInv ==
  ASSUME CAInv, NEW p \in Procs,
         FillKey(p) \/ WriteCert(p) \/ FillCert(p) \/ RemoveKey(p)
  PROVE  CAInv'
  <1>1. pc[p] \in Creating /\ UNCHANGED <<exported, starts, own, used>>
    BY DEF FillKey, WriteCert, FillCert, RemoveKey, Creating, localVars
  <1>2. \A q \in Procs : pc[q] \in Creating => q = p
    BY <1>1, OneCreates
  <1>4. ~cert.whole => exported = 0 /\ \A q \in Procs : used[q] = 0
    BY DEF CAInv, UsedAt, UsedIsTheCert
  <1>5. own[p] \in 0..starts /\ own[p] # 0 /\ \A q \in Procs : q # p => own[q] # own[p]
    BY <1>1 DEF CAInv, StartsAt, Creating
  <1>6. key = [of |-> own[p], whole |-> pc[p] # "fillKey"]
    BY <1>1 DEF CAInv, CreatingAt
  <1>7. PICK l \in {"writeCert", "fillCert", "load", "removeKey", "off"} : Goto(p, l)
    BY DEF FillKey, WriteCert, FillCert, RemoveKey
  <1>8. /\ \A q \in Procs : pc'[q] = (IF q = p THEN l ELSE pc[q])
        /\ pc' \in [Procs -> Places]
    BY <1>7 DEF Goto, CAInv, Places
  <1>9. UsedAt'
    <2>1. CASE FillKey(p) \/ RemoveKey(p)
      <3>1. cert' = cert /\ (key'.whole \/ key'.of = 0)
        BY <2>1 DEF FillKey, RemoveKey, NoFile
      <3>. QED
        BY <1>1, <1>8, <3>1 DEF CAInv, UsedAt, UsedIsTheCert
    <2>2. CASE WriteCert(p) \/ FillCert(p)
      <3>1. key' = key /\ (cert' = cert \/ ~cert.whole)
        BY <2>2 DEF WriteCert, FillCert, NoFile, CAInv, CreatingAt
      <3>2. CASE cert' = cert
        BY <1>1, <1>8, <3>1, <3>2 DEF CAInv, UsedAt, UsedIsTheCert
      <3>3. CASE ~cert.whole
        BY <1>1, <1>4, <1>8, <3>3 DEF CAInv, UsedAt, UsedIsTheCert
      <3>. QED
        BY <3>1, <3>2, <3>3
    <2>. QED
      BY <2>1, <2>2
  <1>10. StartsAt' /\ CreatingAt' /\ CertAt'
    <2>1. CASE FillKey(p)
      <3>1. /\ l = "writeCert" /\ pc[p] = "fillKey" /\ cert' = cert
            /\ key' = [of |-> own[p], whole |-> TRUE]
        BY <1>7, <1>8, <2>1 DEF FillKey, Goto, CAInv
      <3>. QED
        BY <1>1, <1>2, <1>5, <1>8, <3>1 DEF CAInv, StartsAt, CreatingAt, CertAt, Creating
    <2>2. CASE WriteCert(p)
      <3>1. /\ pc[p] = "writeCert" /\ key' = key
            /\ \/ l = "removeKey" /\ cert' = cert
               \/ l = "fillCert" /\ cert' = [of |-> own[p], whole |-> FALSE]
        BY <1>7, <1>8, <2>2 DEF WriteCert, Goto, CAInv
      <3>2. StartsAt'
        <4>1. cert \in [of : 0..starts, whole : BOOLEAN]
          BY DEF CAInv, StartsAt
        <4>2. cert' \in [of : 0..starts, whole : BOOLEAN]
          <5>1. \A b \in BOOLEAN : [of |-> own[p], whole |-> b] \in [of : 0..starts, whole : BOOLEAN]
            BY <1>5
          <5>2. cert' = cert \/ \E b \in BOOLEAN : cert' = [of |-> own[p], whole |-> b]
            BY <3>1
          <5>. QED
            BY <4>1, <5>1, <5>2
        <4>. QED
          BY <1>1, <1>5, <1>8, <3>1, <4>2 DEF CAInv, StartsAt
      <3>3. CreatingAt'
        <4>1. ASSUME NEW q \in Procs, pc'[q] \in Creating PROVE q = p
          BY <1>2, <1>8, <4>1
        <4>2. pc'[p] \in Creating => pc'[p] # "fillKey"
          BY <1>8, <3>1
        <4>3. pc'[p] = "fillCert" => cert' = [of |-> own[p], whole |-> FALSE]
          BY <1>8, <3>1
        <4>. QED
          BY <1>1, <1>6, <3>1, <4>1, <4>2, <4>3 DEF CreatingAt, Creating
      <3>4. CertAt'
        BY <1>1, <1>2, <1>5, <1>8, <3>1 DEF CAInv, CreatingAt, CertAt, Creating
      <3>. QED
        BY <3>2, <3>3, <3>4
    <2>3. CASE FillCert(p)
      <3>1. /\ pc[p] = "fillCert" /\ key' = key
            /\ \/ l \in {"load", "removeKey"} /\ cert' = [of |-> own[p], whole |-> TRUE]
               \/ l = "removeKey" /\ cert' = cert
        BY <1>7, <1>8, <2>3 DEF FillCert, Goto, CAInv
      <3>2. StartsAt'
        <4>1. cert \in [of : 0..starts, whole : BOOLEAN]
          BY DEF CAInv, StartsAt
        <4>2. cert' \in [of : 0..starts, whole : BOOLEAN]
          <5>1. \A b \in BOOLEAN : [of |-> own[p], whole |-> b] \in [of : 0..starts, whole : BOOLEAN]
            BY <1>5
          <5>2. cert' = cert \/ \E b \in BOOLEAN : cert' = [of |-> own[p], whole |-> b]
            BY <3>1
          <5>. QED
            BY <4>1, <5>1, <5>2
        <4>. QED
          BY <1>1, <1>5, <1>8, <3>1, <4>2 DEF CAInv, StartsAt
      <3>3. CreatingAt'
        <4>1. ASSUME NEW q \in Procs, pc'[q] \in Creating PROVE q = p
          BY <1>2, <1>8, <4>1
        <4>2. pc'[p] \in Creating => pc'[p] # "fillKey"
          BY <1>8, <3>1
        <4>3. pc'[p] = "fillCert" => cert' = [of |-> own[p], whole |-> FALSE]
          BY <1>8, <3>1
        <4>. QED
          BY <1>1, <1>6, <3>1, <4>1, <4>2, <4>3 DEF CreatingAt, Creating
      <3>4. CertAt'
        BY <1>1, <1>2, <1>5, <1>8, <3>1 DEF CAInv, CreatingAt, CertAt, Creating
      <3>. QED
        BY <3>2, <3>3, <3>4
    <2>4. CASE RemoveKey(p)
      <3>1. l = "off" /\ pc[p] = "removeKey" /\ key' = NoFile /\ cert' = cert
        BY <1>7, <1>8, <2>4 DEF RemoveKey, Goto, CAInv
      <3>. QED
        BY <1>1, <1>2, <1>5, <1>8, <3>1 DEF CAInv, StartsAt, CreatingAt, CertAt, Creating, NoFile
    <2>. QED
      BY <2>1, <2>2, <2>3, <2>4
  <1>. QED
    BY <1>1, <1>8, <1>9, <1>10 DEF CAInv

LEMMA LoadInv ==
  ASSUME CAInv, NEW p \in Procs, Load(p)
  PROVE  CAInv'
  <1>1. CASE Exit(p)
    <2>1. Crash(p)
      BY <1>1 DEF Load, Crash
    <2>. QED
      BY <2>1, GoesOnInv
  <1>2. CASE ~Exit(p)
    <2>. DEFINE l == IF p \in Servers THEN "rules" ELSE "export"
    <2>1. /\ pc[p] = "load" /\ key.whole /\ cert.whole /\ key.of = cert.of /\ Goto(p, l)
          /\ used' = [used EXCEPT ![p] = key.of]
          /\ UNCHANGED <<key, cert, exported, starts, own>>
      BY <1>2 DEF Load, caVars
    <2>2. /\ \A q \in Procs : pc'[q] = (IF q = p THEN l ELSE pc[q])
          /\ \A q \in Procs : used'[q] = (IF q = p THEN key.of ELSE used[q])
          /\ key.of \in Nat /\ key.of # 0
      BY <2>1 DEF Goto, CAInv, StartsAt
    <2>3. pc' \in [Procs -> Places] /\ used' \in [Procs -> Nat]
      BY <2>1, <2>2 DEF Goto, CAInv, Places
    <2>4. cert = [of |-> key.of, whole |-> TRUE]
      BY <2>1 DEF CAInv, StartsAt
    <2>5. StartsAt' /\ CreatingAt' /\ CertAt'
      BY <2>1, <2>2 DEF CAInv, StartsAt, CreatingAt, CertAt, Creating
    <2>6. UsedAt'
      BY <2>1, <2>2, <2>4 DEF CAInv, UsedAt, UsedIsTheCert
    <2>. QED
      BY <2>1, <2>3, <2>5, <2>6 DEF CAInv
  <1>. QED
    BY <1>1, <1>2

LEMMA ExportCertInv ==
  ASSUME CAInv, NEW p \in Procs, ExportCert(p)
  PROVE  /\ CAInv'
         /\ exported' # 0 /\ (exported # 0 => exported' = exported)
  <1>1. /\ pc[p] = "export" /\ Goto(p, "off") /\ exported' = used[p]
        /\ used' = [used EXCEPT ![p] = 0]
        /\ UNCHANGED <<key, cert, starts, own>>
    BY DEF ExportCert
  <1>2. used[p] # 0 /\ cert = [of |-> used[p], whole |-> TRUE]
    BY <1>1 DEF CAInv, UsedAt, UsedIsTheCert
  <1>3. /\ \A q \in Procs : pc'[q] = (IF q = p THEN "off" ELSE pc[q])
        /\ \A q \in Procs : used'[q] = (IF q = p THEN 0 ELSE used[q])
        /\ pc' \in [Procs -> Places] /\ used' \in [Procs -> Nat]
    BY <1>1 DEF Goto, CAInv, Places
  <1>4. StartsAt' /\ CreatingAt' /\ CertAt'
    BY <1>1, <1>3 DEF CAInv, StartsAt, CreatingAt, CertAt, Creating
  <1>5. UsedAt'
    BY <1>1, <1>2, <1>3 DEF CAInv, UsedAt, UsedIsTheCert
  <1>. QED
    BY <1>1, <1>2, <1>3, <1>4, <1>5 DEF CAInv, UsedAt

LEMMA CANextInv == CAInv /\ [Next]_vars => CAInv'
  <1>1. ASSUME CAInv, UNCHANGED vars PROVE CAInv'
    BY <1>1 DEF vars, caVars, localVars, CAInv, StartsAt, CreatingAt, CertAt, UsedAt,
                UsedIsTheCert
  <1>. QED
    BY <1>1, StartInv, GoesOnInv, WriteKeyInv, CreatingInv, LoadInv, ExportCertInv DEF Next

\* Whoever has loaded a CA has the one of the certificate file, however many processes
\* create, load, fail and crash at once (LoadOrCreate, create and writeNew of ca.go).
THEOREM OneCA == Spec => []UsedIsTheCert
  <1>1. CAInv => UsedIsTheCert
    BY DEF CAInv, UsedAt
  <1>. QED
    BY <1>1, CAInitInv, CANextInv, PTL DEF Spec

\* The CA that was exported is never replaced, whatever is started, and only the process
\* that created it may still remove its key (writeNew of ca.go, which never overwrites).
THEOREM ExportedStays == Spec => ExportedIsKept
  <1>. DEFINE Kept ==
         /\ UNCHANGED <<exported, cert>>
         /\ key.of = exported /\ key' # key =>
              \E p \in Procs : own[p] = exported /\ pc[p] = "removeKey" /\ key' = NoFile
  <1>1. ASSUME CAInv, [Next]_vars, exported # 0
        PROVE  Kept
    <2>0. cert = [of |-> exported, whole |-> TRUE]
      BY <1>1 DEF CAInv, UsedAt
    <2>1. cert' = cert
      BY <1>1, <2>0, WholeIsKept
    <2>2. ASSUME NEW p \in Procs, ExportCert(p) PROVE exported' = exported
      BY <1>1, <2>2, ExportCertInv
    <2>3. ASSUME \A p \in Procs : ~ExportCert(p) PROVE exported' = exported
      BY <1>1, <2>3
      DEF Next, vars, caVars, Start, Crash, Exit, ReadVersion, Migrate, Opened, KeyExists, CertExists,
          WriteKey, FillKey, WriteCert, FillCert, RemoveKey, Load, Serve
    <2>4. ASSUME key.of = exported, key' # key
          PROVE  \E p \in Procs : own[p] = exported /\ pc[p] = "removeKey" /\ key' = NoFile
      BY <1>1, <2>0, <2>4, KeyOfWhole
    <2>. QED
      BY <2>1, <2>2, <2>3, <2>4
  <1>2. CAInv /\ [Next]_vars => [exported # 0 => Kept]_vars
    BY <1>1
  <1>. QED
    BY <1>2, CAInitInv, CANextInv, PTL DEF Spec, ExportedIsKept

-----------------------------------------------------------------------------
(* The schema.  What the one server has read and done agrees with what is  *)
(* there, but for step 1, which leaves the version to the next one.        *)

OneServer == \A p, q \in Servers : p = q

SchemaAt ==
  \A p \in Procs :
    /\ pc[p] \in {"version", "migrate"} => p \in Servers
    /\ pc[p] = "migrate" =>
         /\ seen[p] \in 0..schemaVersion
         /\ version = seen[p] \/ (version = 0 /\ seen[p] = 1 /\ schema = {1})

SchemaInv ==
  /\ version \in Nat
  /\ pc \in [Procs -> Places] /\ seen \in [Procs -> Nat]
  /\ VersionTellsSchema /\ SchemaAt

LEMMA SchemaInitInv == Init => SchemaInv
  <1>. SUFFICES ASSUME Init PROVE SchemaInv
    OBVIOUS
  <1>1. version \in Nat /\ VersionTellsSchema
    BY DEF Init, Newer, schemaVersion, VersionTellsSchema
  <1>. QED
    BY <1>1 DEF Init, SchemaInv, SchemaAt, Places

LEMMA MigrateInv ==
  ASSUME OneServer, SchemaInv, NEW p \in Procs, Migrate(p)
  PROVE  SchemaInv'
  <1>. DEFINE k == seen[p] + 1
  <1>1. /\ pc[p] = "migrate" /\ p \in Servers
        /\ seen[p] \in 0..4
        /\ version = seen[p] \/ (version = 0 /\ seen[p] = 1 /\ schema = {1})
    BY DEF Migrate, SchemaInv, SchemaAt, schemaVersion
  <1>2. CASE Exit(p)
    <2>1. pc' = [pc EXCEPT ![p] = "off"] /\ UNCHANGED <<version, schema, seen>>
      BY <1>2 DEF Exit, Goto, dbVars
    <2>. QED
      BY <2>1 DEF SchemaInv, SchemaAt, VersionTellsSchema, Places
  <1>3. CASE /\ schema' = schema \cup {k}
             /\ version' = IF k = 1 THEN version ELSE k
             /\ seen' = [seen EXCEPT ![p] = k]
             /\ pc' = pc
    <2>1. VersionTellsSchema'
      <3>1. CASE seen[p] = 0
        BY <1>1, <1>3, <3>1 DEF SchemaInv, VersionTellsSchema
      <3>2. CASE seen[p] # 0
        <4>1. schema = 1..seen[p]
          <5>1. CASE version = seen[p]
            BY <3>2, <5>1 DEF SchemaInv, VersionTellsSchema
          <5>2. CASE seen[p] = 1 /\ schema = {1}
            <6>1. 1..1 = {1}
              OBVIOUS
            <6>. QED
              BY <5>2, <6>1
          <5>. QED
            BY <1>1, <5>1, <5>2
        <4>2. schema' = 1..k /\ version' = k /\ version' # 0
          BY <1>1, <1>3, <3>2, <4>1
        <4>. QED
          BY <4>2 DEF VersionTellsSchema
      <3>. QED
        BY <3>1, <3>2
    <2>2. \A q \in Procs : pc[q] \in {"version", "migrate"} => q = p
      BY <1>1 DEF OneServer, SchemaInv, SchemaAt
    <2>3. SchemaAt'
      <3>1. seen'[p] = k /\ k \in 0..schemaVersion
        BY <1>1, <1>3 DEF SchemaInv, schemaVersion
      <3>2. version' = k \/ (version' = 0 /\ k = 1 /\ schema' = {1})
        BY <1>1, <1>3 DEF SchemaInv, VersionTellsSchema
      <3>. QED
        BY <1>1, <1>3, <2>2, <3>1, <3>2 DEF SchemaAt
    <2>. QED
      BY <1>1, <1>3, <2>1, <2>3 DEF SchemaInv
  <1>. QED
    BY <1>2, <1>3 DEF Migrate

LEMMA SchemaNextInv == OneServer /\ SchemaInv /\ [Next]_vars => SchemaInv'
  <1>. SUFFICES ASSUME OneServer, SchemaInv, [Next]_vars PROVE SchemaInv'
    OBVIOUS
  <1>1. CASE UNCHANGED vars
    BY <1>1 DEF vars, dbVars, localVars, SchemaInv, SchemaAt, VersionTellsSchema
  <1>2. ASSUME NEW p \in Procs, NEW l \in Places, Goto(p, l),
               l = "version" => p \in Servers, l # "migrate",
               UNCHANGED <<version, schema, seen>>
        PROVE  SchemaInv'
    <2>1. \A q \in Procs : pc'[q] = (IF q = p THEN l ELSE pc[q])
      BY <1>2 DEF Goto, SchemaInv
    <2>2. pc' \in [Procs -> Places]
      BY <1>2 DEF Goto, SchemaInv
    <2>. QED
      BY <1>2, <2>1, <2>2 DEF SchemaInv, SchemaAt, VersionTellsSchema
  <1>3. ASSUME NEW p \in Procs, Exit(p) PROVE SchemaInv'
    BY <1>2, <1>3 DEF Exit, dbVars, Places
  <1>4. ASSUME NEW p \in Procs, ReadVersion(p) PROVE SchemaInv'
    <2>1. CASE Exit(p)
      BY <1>3, <2>1
    <2>2. CASE ~Exit(p)
      <3>1. /\ pc[p] = "version" /\ version <= schemaVersion
            /\ seen' = [seen EXCEPT ![p] = version] /\ pc' = [pc EXCEPT ![p] = "migrate"]
            /\ UNCHANGED <<version, schema>>
        BY <1>4, <2>2 DEF ReadVersion, Goto, dbVars
      <3>2. p \in Servers /\ \A q \in Procs : pc[q] = "migrate" => q = p
        BY <3>1 DEF OneServer, SchemaInv, SchemaAt
      <3>3. pc' \in [Procs -> Places] /\ seen' \in [Procs -> Nat]
        BY <3>1 DEF SchemaInv, Places
      <3>4. SchemaAt'
        BY <3>1, <3>2 DEF SchemaInv, SchemaAt, schemaVersion
      <3>. QED
        BY <3>1, <3>3, <3>4 DEF SchemaInv, VersionTellsSchema
    <2>. QED
      BY <2>1, <2>2
  <1>5. ASSUME NEW p \in Procs,
               \/ Start(p) \/ Crash(p) \/ Opened(p)
               \/ KeyExists(p) \/ CertExists(p) \/ WriteKey(p) \/ FillKey(p)
               \/ WriteCert(p) \/ FillCert(p) \/ RemoveKey(p) \/ Load(p)
               \/ ExportCert(p) \/ Serve(p)
        PROVE  SchemaInv'
    <2>1. CASE Start(p)
      BY <1>2, <2>1 DEF Start, dbVars, Places
    <2>2. CASE Crash(p)
      BY <1>3, <2>2 DEF Crash
    <2>3. CASE Opened(p) \/ Serve(p) \/ RemoveKey(p) \/ ExportCert(p) \/ KeyExists(p)
      BY <1>2, <2>3 DEF Opened, Serve, RemoveKey, ExportCert, KeyExists, dbVars, localVars, Places
    <2>4. CASE CertExists(p)
      BY <1>2, <1>3, <2>4 DEF CertExists, dbVars, localVars, Places
    <2>5. CASE WriteKey(p) \/ FillKey(p)
      BY <1>2, <1>3, <2>5 DEF WriteKey, FillKey, dbVars, localVars, Places
    <2>6. CASE WriteCert(p) \/ FillCert(p)
      BY <1>2, <2>6 DEF WriteCert, FillCert, dbVars, localVars, Places
    <2>7. CASE Load(p)
      BY <1>2, <1>3, <2>7 DEF Load, dbVars, Places
    <2>. QED
      BY <1>5, <2>1, <2>2, <2>3, <2>4, <2>5, <2>6, <2>7
  <1>. QED
    BY <1>1, <1>4, <1>5, MigrateInv DEF Next

\* With one process that serves, which may crash and be started again at any point,
\* the version tells what the schema is (migrate of store.go); two that migrate at
\* once may set it back.
THEOREM VersionIsSchema ==
  ASSUME OneServer
  PROVE  Spec => []VersionTellsSchema
  <1>1. SchemaInv /\ [Next]_vars => SchemaInv'
    BY SchemaNextInv
  <1>2. SchemaInv => VersionTellsSchema
    BY DEF SchemaInv
  <1>. QED
    BY <1>1, <1>2, SchemaInitInv, PTL DEF Spec

=============================================================================
