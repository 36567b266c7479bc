------------------------------ MODULE Download ------------------------------
(***************************************************************************)
(* "sbctl download" (cli/download.go) with the token it sends              *)
(* (cli/token.go, pkg/config/replicated.go): the request to the vendor     *)
(* portal, the request to the signed URL it answers, and the copy of that  *)
(* response into support-bundle.tgz in the current directory, where an     *)
(* earlier file of that name may be and other downloads may run.           *)
(*                                                                         *)
(* A bundle is the sequence of its parts, the pieces io.Copy writes.       *)
(***************************************************************************)
EXTENDS Naturals, Sequences

CONSTANTS
  Downloads,     \* the commands
  Bundles,       \* what they may download
  Parts,         \* the number of parts of each
  Environments,  \* flags, environment and configuration of the user
  OldParts       \* what an earlier support-bundle.tgz may hold

ASSUME DownloadAssumption ==
  /\ Parts \in [Bundles -> Nat]
  /\ {"old", "hole", "none"} \cap Bundles = {}
  /\ OldParts \subseteq Nat

(* token: --token or SBCTL_TOKEN; apiToken: REPLICATED_API_TOKEN; "" is    *)
(* the absence of each, of profiles too.  config: whether                  *)
(* ~/.replicated/config.yaml can be read and parsed; tokens: the apiToken  *)
(* of each profile in it.                                                  *)
ASSUME EnvironmentsAssumption ==
  \A e \in Environments :
    /\ e.config \in BOOLEAN
    /\ "" \notin DOMAIN e.tokens

VARIABLES
  environment,  \* of all the downloads
  bundle,       \* what each is asked for
  pc,           \* where it is
  token,        \* the token it sends
  offset,       \* the parts it has written
  file,         \* support-bundle.tgz
  creator       \* who has created or emptied it last

input  == <<environment, bundle>>
disk   == <<file, creator>>
vars   == <<input, pc, token, offset, disk>>

Cell       == [of : Bundles \cup {"old", "hole", "none"}, part : Nat]
Part(b, i) == [of |-> b, part |-> i]
Whole(b)   == [i \in 1..Parts[b] |-> Part(b, i)]
Old(n)     == [i \in 1..n |-> Part("old", i)]
Hole       == Part("hole", 0)
NoFile     == <<Part("none", 0)>>

Pcs == {"token", "vendor", "signed", "create", "copy", "reported", "failed",
        "cut", "killed"}

(* What a user has configured. *)
Tokens == {"", environment.token, environment.apiToken}
            \cup {environment.tokens[p] : p \in DOMAIN environment.tokens}

TypeOK ==
  /\ environment \in Environments
  /\ bundle \in [Downloads -> Bundles]
  /\ pc \in [Downloads -> Pcs]
  /\ token \in [Downloads -> Tokens]
  /\ offset \in [Downloads -> Nat]
  /\ \A d \in Downloads : offset[d] \in 0..Parts[bundle[d]]
  /\ file \in Seq(Cell)
  /\ creator \in Downloads \cup {"none"}

Init ==
  /\ environment \in Environments
  /\ bundle \in [Downloads -> Bundles]
  /\ pc = [d \in Downloads |-> "token"]
  /\ token = [d \in Downloads |-> ""]
  /\ offset = [d \in Downloads |-> 0]
  /\ file \in {NoFile} \cup {Old(n) : n \in OldParts}
  /\ creator = "none"

-----------------------------------------------------------------------------
At(d, label)   == pc[d] = label
Goto(d, label) == pc' = [pc EXCEPT ![d] = label]

(* GetTokenFromReplicatedConfig: --profile, or the default of the file     *)
Profile(e) == IF e.profile # "" THEN e.profile ELSE e.defaultProfile

(* Mutant: a profile without a token is a profile. *)
HasTokenAny(e) == e.config /\ Profile(e) \in DOMAIN e.tokens

HasToken(e) ==
  /\ e.config
  /\ Profile(e) \in DOMAIN e.tokens
  /\ e.tokens[Profile(e)] # ""

(* resolveToken; before it the location may be missing, after it not parse *)
Resolve(d, value) ==
  /\ Goto(d, "vendor")
  /\ token' = [token EXCEPT ![d] = value]
  /\ UNCHANGED <<input, offset, disk>>

ResolveToken(d) ==
  LET e == environment
  IN  /\ At(d, "token")
      /\ \/ e.token # "" /\ Resolve(d, e.token)
         \/ e.token = "" /\ e.apiToken # "" /\ Resolve(d, e.apiToken)
         \/ /\ e.token = "" /\ e.apiToken = "" /\ HasToken(e)
            /\ Resolve(d, e.tokens[Profile(e)])

quiet == <<input, token, offset, disk>>

(* No location, no slug in it, no token; a request that fails, a status    *)
(* that is not 200, an answer that is not JSON; os.Create fails            *)
Fail(d) ==
  /\ pc[d] \in {"token", "vendor", "signed", "create"}
  /\ Goto(d, "failed")
  /\ UNCHANGED quiet

(* the vendor portal answers the signed URL *)
RequestBundle(d) ==
  /\ At(d, "vendor") /\ Goto(d, "signed")
  /\ UNCHANGED quiet

(* Mutant: the file is created for any response of the signed URL. *)
RequestSignedURLEarly(d) ==
  /\ At(d, "signed")
  /\ \E label \in {"create", "failed"} : Goto(d, label)
  /\ file' = <<>>
  /\ UNCHANGED <<input, token, offset, creator>>

(* and the signed URL the bundle, with status 200 *)
RequestSignedURL(d) ==
  /\ At(d, "signed") /\ Goto(d, "create")
  /\ UNCHANGED quiet

(* Mutant: an earlier file is overwritten in place. *)
CreateFileInPlace(d) ==
  /\ At(d, "create") /\ Goto(d, "copy")
  /\ file' = IF file = NoFile THEN <<>> ELSE file
  /\ creator' = d
  /\ UNCHANGED <<input, token, offset>>

(* os.Create empties an earlier file *)
CreateFile(d) ==
  /\ At(d, "create") /\ Goto(d, "copy")
  /\ file' = <<>>
  /\ creator' = d
  /\ UNCHANGED <<input, token, offset>>

(* A write at the download's own place in the file, which another may have *)
(* emptied since: what lies before it is a hole.                           *)
WriteAt(f, i, part) ==
  [j \in 1..(IF i > Len(f) THEN i ELSE Len(f)) |->
     IF j = i THEN part ELSE IF j <= Len(f) THEN f[j] ELSE Hole]

(* Mutant: one write more than the body has parts. *)
WritePartMore(d) ==
  /\ At(d, "copy") /\ offset[d] <= Parts[bundle[d]]
  /\ offset' = [offset EXCEPT ![d] = @ + 1]
  /\ file' = WriteAt(file, offset[d] + 1, Part(bundle[d], offset[d] + 1))
  /\ UNCHANGED <<input, pc, token, creator>>

WritePart(d) ==
  /\ At(d, "copy") /\ offset[d] < Parts[bundle[d]]
  /\ offset' = [offset EXCEPT ![d] = @ + 1]
  /\ file' = WriteAt(file, offset[d] + 1, Part(bundle[d], offset[d] + 1))
  /\ UNCHANGED <<input, pc, token, creator>>

(* Mutant: the error of io.Copy is not looked at. *)
CopyEndsAnyhow(d) ==
  /\ At(d, "copy")
  /\ Goto(d, "reported")
  /\ UNCHANGED quiet

(* io.Copy: all of the body, or an error *)
CopyEnds(d) ==
  /\ At(d, "copy")
  /\ \/ offset[d] = Parts[bundle[d]] /\ Goto(d, "reported")
     \/ Goto(d, "cut")
  /\ UNCHANGED quiet

(* download has no handler of its own for a SIGINT. *)
Interrupt(d) ==
  /\ pc[d] \notin {"reported", "failed", "cut", "killed"}
  /\ Goto(d, "killed")
  /\ UNCHANGED quiet

Step(d) ==
  \/ ResolveToken(d) \/ RequestBundle(d) \/ RequestSignedURL(d)
  \/ CreateFile(d) \/ WritePart(d) \/ CopyEnds(d) \/ Fail(d)

Next == \E d \in Downloads : Step(d) \/ Interrupt(d)

Spec == Init /\ [][Next]_vars

-----------------------------------------------------------------------------
(* Properties *)

(* The file a download reports is the whole bundle and nothing else,       *)
(* whatever file, failed download or concurrent download of the same       *)
(* bundle was there, unless another download has emptied the file since.   *)
SameBundle == \A d, e \in Downloads : bundle[d] = bundle[e]

ReportedIsWhole ==
  \A d \in Downloads :
    SameBundle /\ creator = d /\ pc[d] = "reported" => file = Whole(bundle[d])

(* The earlier file is as it was until a signed URL has answered with a    *)
(* bundle: no failure before that costs the user the bundle already there. *)
EarlierFileKept ==
  (\A d \in Downloads : pc[d] \in {"token", "vendor", "signed", "create", "failed"})
    => file \in {NoFile} \cup {Old(n) : n \in OldParts}

(* No request is sent without a token, and none with a token the user has *)
(* not chosen: --token if it is given, and otherwise REPLICATED_API_TOKEN  *)
(* or the token of the profile asked for, which is the default one when    *)
(* none is, in a configuration that can be read.  No other profile's token *)
(* stands in for a profile that is missing or has none.                    *)
ChosenProfiles(e) ==
  {p \in DOMAIN e.tokens : p = e.profile \/ (e.profile = "" /\ p = e.defaultProfile)}

Chosen(e) ==
  IF e.token # "" THEN {e.token}
  ELSE {e.apiToken} \cup {t \in {e.tokens[p] : p \in ChosenProfiles(e)} : e.config}

TokenSent ==
  \A d \in Downloads :
    pc[d] \in {"vendor", "signed", "create", "copy", "reported"}
      => token[d] \in Chosen(environment) \ {""}
=============================================================================
