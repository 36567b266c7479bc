----------------------------- MODULE DownloadProofs -----------------------------
(***************************************************************************)
(* Proofs about Download, for every set of downloads and bundles, every    *)
(* configuration of the user and every earlier file.                       *)
(***************************************************************************)
EXTENDS Download, SequenceTheorems, TLAPS

(* Writing in a file leaves a file, at least as long as the place written, *)
(* that differs from the old one at that place and beyond its end only.    *)
LEMMA WriteAtFacts ==
  ASSUME NEW f \in Seq(Cell), NEW i \in Nat \ {0}, NEW part \in Cell
  PROVE  LET g == WriteAt(f, i, part)
         IN  /\ g \in Seq(Cell)
             /\ Len(g) = IF i > Len(f) THEN i ELSE Len(f)
             /\ g[i] = part
             /\ \A j \in 1..Len(f) : j # i => g[j] = f[j]
<1> DEFINE n == IF i > Len(f) THEN i ELSE Len(f)
           g == WriteAt(f, i, part)
<1>1. n \in Nat /\ i \in 1..n /\ Len(f) \in Nat /\ Len(f) <= n
  OBVIOUS
<1>2. Hole \in Cell
  BY DEF Hole, Part, Cell
<1>3. \A j \in 1..Len(f) : f[j] \in Cell
  BY ElementOfSeq
<1> HIDE DEF n
<1>4. g = [j \in 1..n |->
             IF j = i THEN part ELSE IF j <= Len(f) THEN f[j] ELSE Hole]
  BY DEF WriteAt, n
<1>5. g \in [1..n -> Cell]
  <2>1. ASSUME NEW j \in 1..n
        PROVE  (IF j = i THEN part ELSE IF j <= Len(f) THEN f[j] ELSE Hole) \in Cell
    BY <1>1, <1>2, <1>3
  <2> QED BY <1>4, <2>1
<1>6. g \in Seq(Cell) /\ Len(g) = n
  <2>1. g \in Seq(Cell)
    BY <1>1, <1>5, SeqDef
  <2> QED BY <1>1, <1>5, <2>1, LenProperties
<1>7. g[i] = part /\ \A j \in 1..Len(f) : j # i => g[j] = f[j]
  BY <1>1, <1>4
<1> QED BY <1>6, <1>7 DEF n

(* The parts of every bundle, and what an earlier file may be. *)
LEMMA FileFacts ==
  /\ \A b \in Bundles : Parts[b] \in Nat /\ \A i \in Nat : Part(b, i) \in Cell
  /\ NoFile \in Seq(Cell) /\ <<>> \in Seq(Cell)
  /\ \A n \in OldParts : Old(n) \in Seq(Cell)
<1>1. \A b \in Bundles : Parts[b] \in Nat /\ \A i \in Nat : Part(b, i) \in Cell
  BY DownloadAssumption DEF Part, Cell
<1>2. NoFile \in Seq(Cell) /\ <<>> \in Seq(Cell)
  BY DEF NoFile, Part, Cell
<1>3. ASSUME NEW n \in OldParts
      PROVE  Old(n) \in Seq(Cell)
  <2>1. n \in Nat
    BY DownloadAssumption
  <2>2. \A i \in 1..n : Part("old", i) \in Cell
    BY <2>1 DEF Part, Cell
  <2>3. Old(n) \in [1..n -> Cell]
    BY <2>2 DEF Old
  <2> QED BY <2>1, <2>3, SeqDef
<1> QED BY <1>1, <1>2, <1>3

-----------------------------------------------------------------------------
(* Type correctness *)

LEMMA TypeOKInit == Init => TypeOK
<1> SUFFICES ASSUME Init
             PROVE  TypeOK
  OBVIOUS
<1>1. /\ file \in Seq(Cell)
      /\ \A d \in Downloads : Parts[bundle[d]] \in Nat
  BY FileFacts DEF Init
<1>2. \A d \in Downloads : offset[d] \in 0..Parts[bundle[d]]
  <2>1. SUFFICES ASSUME NEW d \in Downloads
                 PROVE  offset[d] \in 0..Parts[bundle[d]]
    OBVIOUS
  <2>2. offset[d] = 0 /\ Parts[bundle[d]] \in Nat
    BY <1>1 DEF Init
  <2> QED BY <2>2
<1> QED
  BY <1>1, <1>2 DEF Init, TypeOK, Pcs, Tokens

LEMMA TypeOKStep == TypeOK /\ [Next]_vars => TypeOK'
<1> SUFFICES ASSUME TypeOK, [Next]_vars
             PROVE  TypeOK'
  OBVIOUS
<1> USE DEF Goto, At, input, disk, quiet
<1>1. ASSUME NEW d \in Downloads, NEW label \in Pcs, Goto(d, label),
             UNCHANGED quiet
      PROVE  TypeOK'
  BY <1>1 DEF TypeOK, Tokens
<1>2. ASSUME NEW d \in Downloads, ResolveToken(d)
      PROVE  TypeOK'
  <2>1. ASSUME NEW value \in Tokens, Resolve(d, value)
        PROVE  TypeOK'
    <3>1. pc' \in [Downloads -> Pcs]
      BY <2>1 DEF TypeOK, Resolve, Pcs
    <3>2. Tokens' = Tokens
      BY <2>1 DEF Resolve, Tokens
    <3>3. token' \in [Downloads -> Tokens']
      BY <2>1, <3>2 DEF TypeOK, Resolve
    <3> QED BY <2>1, <3>1, <3>3 DEF TypeOK, Resolve
  <2>2. \E value \in Tokens : Resolve(d, value)
    BY <1>2 DEF ResolveToken, HasToken, Tokens
  <2> QED BY <2>1, <2>2
<1>3. ASSUME NEW d \in Downloads,
             Fail(d) \/ RequestBundle(d) \/ RequestSignedURL(d) \/ CopyEnds(d)
               \/ Interrupt(d)
      PROVE  TypeOK'
  <2>1. \E label \in Pcs : Goto(d, label) /\ UNCHANGED quiet
    BY <1>3 DEF Fail, RequestBundle, RequestSignedURL, CopyEnds, Interrupt, Pcs
  <2> QED BY <1>1, <2>1
<1>4. ASSUME NEW d \in Downloads, CreateFile(d)
      PROVE  TypeOK'
  <2>1. pc' \in [Downloads -> Pcs]
    BY <1>4 DEF TypeOK, CreateFile, Pcs
  <2>2. file' \in Seq(Cell)
    BY <1>4, FileFacts DEF CreateFile
  <2> QED BY <1>4, <2>1, <2>2 DEF TypeOK, CreateFile, Tokens
<1>5. ASSUME NEW d \in Downloads, WritePart(d)
      PROVE  TypeOK'
  <2>1. /\ offset[d] \in Nat /\ Parts[bundle[d]] \in Nat
        /\ offset[d] < Parts[bundle[d]]
        /\ Part(bundle[d], offset[d] + 1) \in Cell
    BY <1>5, FileFacts DEF WritePart, TypeOK
  <2>2. file' \in Seq(Cell)
    BY <1>5, <2>1, WriteAtFacts DEF WritePart, TypeOK
  <2>3. offset' = [offset EXCEPT ![d] = offset[d] + 1]
    BY <1>5 DEF WritePart
  <2>4. /\ \A e \in Downloads : offset'[e] \in 0..Parts[bundle[e]]
        /\ offset' \in [Downloads -> Nat]
    BY <2>1, <2>3 DEF TypeOK
  <2> QED BY <1>5, <2>2, <2>4 DEF WritePart, TypeOK, Tokens
<1>6. CASE UNCHANGED vars
  BY <1>6 DEF vars, TypeOK, Tokens
<1> QED BY <1>2, <1>3, <1>4, <1>5, <1>6 DEF Next, Step

(* Every variable keeps its type: a token is one the user has configured,  *)
(* and nothing is written beyond the bundle.                               *)
THEOREM TypeCorrect == Spec => []TypeOK
BY TypeOKInit, TypeOKStep, PTL DEF Spec

-----------------------------------------------------------------------------
(* The token *)

(* resolveToken takes a token the user has chosen, and none that is empty. *)
LEMMA ResolvedIsChosen ==
  ASSUME NEW d \in Downloads, ResolveToken(d)
  PROVE  \E value \in Chosen(environment) \ {""} : Resolve(d, value)
<1> DEFINE e == environment
<1>1. CASE e.token # "" /\ Resolve(d, e.token)
  BY <1>1 DEF Chosen
<1>2. CASE e.token = "" /\ e.apiToken # "" /\ Resolve(d, e.apiToken)
  BY <1>2 DEF Chosen
<1>3. CASE /\ e.token = "" /\ e.apiToken = "" /\ HasToken(e)
           /\ Resolve(d, e.tokens[Profile(e)])
  <2>1. Profile(e) \in ChosenProfiles(e) /\ e.config /\ e.tokens[Profile(e)] # ""
    BY <1>3 DEF HasToken, Profile, ChosenProfiles
  <2> QED BY <1>3, <2>1 DEF Chosen
<1> QED BY <1>1, <1>2, <1>3 DEF ResolveToken

(* No request is sent without a token or with one the user has not chosen, *)
(* in any configuration.                                                   *)
THEOREM TokenIsSent == Spec => []TokenSent
<1>1. Init => TokenSent
  BY DEF Init, TokenSent
<1>2. TypeOK /\ TokenSent /\ [Next]_vars => TokenSent'
  <2> SUFFICES ASSUME TypeOK, TokenSent, [Next]_vars
               PROVE  TokenSent'
    OBVIOUS
  <2>1. environment' = environment
    BY DEF Next, Step, ResolveToken, Resolve, Fail, RequestBundle,
           RequestSignedURL, CreateFile, WritePart, CopyEnds, Interrupt, input,
           quiet, vars
  <2>2. Chosen(environment)' = Chosen(environment)
    BY <2>1 DEF Chosen, ChosenProfiles
  <2>3. ASSUME NEW d \in Downloads, ResolveToken(d)
        PROVE  TokenSent'
    <3>1. PICK value \in Chosen(environment) \ {""} : Resolve(d, value)
      BY <2>3, ResolvedIsChosen
    <3> QED BY <2>2, <3>1 DEF TypeOK, TokenSent, Resolve, Goto
  <2>4. ASSUME NEW d \in Downloads,
               Fail(d) \/ RequestBundle(d) \/ RequestSignedURL(d) \/ CreateFile(d)
                 \/ WritePart(d) \/ CopyEnds(d) \/ Interrupt(d)
        PROVE  TokenSent'
    BY <2>2, <2>4 DEF TypeOK, TokenSent, Fail, RequestBundle, RequestSignedURL,
                      CreateFile, WritePart, CopyEnds, Interrupt, Goto, At, quiet
  <2>5. CASE UNCHANGED vars
    BY <2>2, <2>5 DEF TokenSent, vars
  <2> QED BY <2>3, <2>4, <2>5 DEF Next, Step
<1> QED BY <1>1, <1>2, TypeCorrect, PTL DEF Spec

-----------------------------------------------------------------------------
(* The file *)

(* The earlier file is as it was until a signed URL has answered with a    *)
(* bundle.  No download comes back from the writing of its file.           *)
THEOREM EarlierFileIsKept == Spec => []EarlierFileKept
<1>1. Init => EarlierFileKept
  BY DEF Init, EarlierFileKept
<1>2. TypeOK /\ EarlierFileKept /\ [Next]_vars => EarlierFileKept'
  BY DEF TypeOK, EarlierFileKept, Next, Step, ResolveToken, Resolve, Fail,
         RequestBundle, RequestSignedURL, CreateFile, WritePart, CopyEnds,
         Interrupt, Goto, At, input, disk, quiet, vars
<1> QED BY <1>1, <1>2, TypeCorrect, PTL DEF Spec

(* A download has written nothing before it creates the file, and all of   *)
(* the bundle when it reports it.                                          *)
Progress(d) ==
  /\ pc[d] \in {"token", "vendor", "signed", "create", "failed"} => offset[d] = 0
  /\ pc[d] = "reported" => offset[d] = Parts[bundle[d]]

(* The parts a download has written since it emptied the file last are in  *)
(* it, and the file is no longer than the bundle: another download of the  *)
(* same bundle writes the same parts at the same places.                   *)
Written(d) ==
  creator = d /\ pc[d] \in {"copy", "reported"} =>
    /\ offset[d] <= Len(file)
    /\ Len(file) <= Parts[bundle[d]]
    /\ \A j \in 1..offset[d] : file[j] = Part(bundle[d], j)

FileInv ==
  /\ \A d \in Downloads : Progress(d)
  /\ SameBundle => \A d \in Downloads : Written(d)

LEMMA FileInvInit == Init => FileInv
BY DEF Init, FileInv, Progress, Written

LEMMA FileInvStep ==
  ASSUME TypeOK, FileInv, [Next]_vars
  PROVE  FileInv'
<1> USE DEF Goto, At, input, disk, quiet
<1>1. ASSUME NEW e \in Downloads,
             ResolveToken(e) \/ Fail(e) \/ RequestBundle(e)
               \/ RequestSignedURL(e) \/ CopyEnds(e) \/ Interrupt(e)
      PROVE  FileInv'
  <2>1. /\ UNCHANGED <<bundle, offset, file, creator>>
        /\ \A d \in Downloads \ {e} : pc'[d] = pc[d]
        /\ pc'[e] \in {"token", "vendor", "signed", "create", "failed"}
             => pc[e] \in {"token", "vendor", "signed", "create", "failed"}
        /\ pc'[e] # "copy"
        /\ pc'[e] = "reported" =>
             pc[e] = "copy" /\ offset[e] = Parts[bundle[e]]
    BY <1>1 DEF TypeOK, ResolveToken, Resolve, Fail, RequestBundle,
                RequestSignedURL, CopyEnds, Interrupt
  <2>2. \A d \in Downloads : Progress(d)'
    BY <2>1 DEF FileInv, Progress
  <2>3. SameBundle' => \A d \in Downloads : Written(d)'
    BY <2>1 DEF FileInv, SameBundle, Written
  <2> QED BY <2>2, <2>3 DEF FileInv
<1>2. ASSUME NEW e \in Downloads, CreateFile(e)
      PROVE  FileInv'
  <2>1. /\ UNCHANGED <<bundle, offset>> /\ file' = <<>> /\ creator' = e
        /\ \A d \in Downloads \ {e} : pc'[d] = pc[d]
        /\ pc'[e] = "copy" /\ offset[e] = 0
        /\ Parts[bundle[e]] \in Nat
    BY <1>2, FileFacts DEF CreateFile, TypeOK, FileInv, Progress
  <2> QED BY <2>1 DEF FileInv, Progress, Written
<1>3. ASSUME NEW e \in Downloads, WritePart(e)
      PROVE  FileInv'
  <2> DEFINE i == offset[e] + 1
             part == Part(bundle[e], i)
  <2>1. /\ UNCHANGED <<bundle, pc, creator>> /\ pc[e] = "copy"
        /\ offset' = [offset EXCEPT ![e] = i]
        /\ file' = WriteAt(file, i, part)
        /\ offset[e] < Parts[bundle[e]]
    BY <1>3 DEF WritePart
  <2>2. /\ \A d \in Downloads : offset[d] \in Nat /\ Parts[bundle[d]] \in Nat
        /\ i \in Nat \ {0} /\ part \in Cell /\ file \in Seq(Cell)
        /\ i <= Parts[bundle[e]]
        /\ Len(file) \in Nat
    BY <2>1, FileFacts DEF TypeOK
  <2>3. /\ Len(file') = IF i > Len(file) THEN i ELSE Len(file)
        /\ file'[i] = part
        /\ \A j \in 1..Len(file) : j # i => file'[j] = file[j]
    BY <2>1, <2>2, WriteAtFacts
  <2>4. \A d \in Downloads : Progress(d)'
    BY <2>1 DEF FileInv, Progress, TypeOK
  <2>5. ASSUME SameBundle', NEW d \in Downloads,
               creator' = d, pc'[d] \in {"copy", "reported"}
        PROVE  /\ offset'[d] <= Len(file')
               /\ Len(file') <= Parts[bundle'[d]]
               /\ \A j \in 1..offset'[d] : file'[j] = Part(bundle'[d], j)
    <3>1. bundle' = bundle /\ bundle[d] = bundle[e]
      BY <2>1, <2>5 DEF SameBundle
    <3>2. /\ offset[d] <= Len(file) /\ Len(file) <= Parts[bundle[d]]
          /\ \A j \in 1..offset[d] : file[j] = Part(bundle[d], j)
      <4>1. SameBundle
        BY <2>1, <2>5 DEF SameBundle
      <4> QED BY <2>1, <2>5, <4>1 DEF FileInv, Written
    <3>3. offset'[d] = IF d = e THEN i ELSE offset[d]
      BY <2>1 DEF TypeOK
    <3> HIDE DEF i, part
    <3>4. offset'[d] <= Len(file') /\ Len(file') <= Parts[bundle[d]]
      BY <2>2, <2>3, <3>1, <3>2, <3>3
    <3>5. ASSUME NEW j \in 1..offset'[d]
          PROVE  file'[j] = Part(bundle[d], j)
      <4>1. CASE j = i
        BY <2>3, <3>1, <4>1 DEF part
      <4>2. CASE j # i
        <5>1. j \in 1..offset[d]
          BY <2>2, <3>3, <4>2 DEF i
        <5>2. j \in 1..Len(file)
          BY <2>2, <3>2, <5>1
        <5> QED BY <2>3, <3>2, <4>2, <5>1, <5>2
      <4> QED BY <4>1, <4>2
    <3> QED BY <3>1, <3>4, <3>5
  <2> QED BY <2>4, <2>5 DEF FileInv, Written
<1>4. CASE UNCHANGED vars
  BY <1>4 DEF FileInv, Progress, Written, SameBundle, vars
<1> QED BY <1>1, <1>2, <1>3, <1>4 DEF Next, Step

(* The file a download reports is the whole bundle and nothing else,       *)
(* whatever file was there and however many downloads of the same bundle   *)
(* write to it, unless another download has emptied it since.              *)
THEOREM ReportedFileIsWhole == Spec => []ReportedIsWhole
<1>1. TypeOK /\ FileInv => ReportedIsWhole
  <2> SUFFICES ASSUME TypeOK, FileInv, SameBundle, NEW d \in Downloads,
                      creator = d, pc[d] = "reported"
               PROVE  file = Whole(bundle[d])
    BY DEF ReportedIsWhole
  <2> DEFINE n == Parts[bundle[d]]
  <2>1. /\ offset[d] = n /\ n \in Nat /\ Len(file) \in Nat /\ file \in Seq(Cell)
        /\ n <= Len(file) /\ Len(file) <= n
        /\ \A j \in 1..n : file[j] = Part(bundle[d], j)
    BY FileFacts DEF FileInv, Progress, Written, TypeOK
  <2> HIDE DEF n
  <2>2. Len(file) = n
    BY <2>1
  <2>3. file = [j \in 1..n |-> file[j]]
    BY <2>1, <2>2
  <2> QED BY <2>1, <2>3 DEF Whole, n
<1>2. TypeOK /\ FileInv /\ [Next]_vars => FileInv'
  BY FileInvStep
<1> QED BY <1>1, <1>2, FileInvInit, TypeCorrect, PTL DEF Spec
=============================================================================
