----------------------------- MODULE PodResolver -----------------------------
(***************************************************************************)
(* Resolution of a pod identifier, or a prefix of one, to a sandbox:       *)
(*   client = "kuasarctl"  : list_available_pods and resolve_pod_id,       *)
(*                           src/kuasarctl/src/main.rs                     *)
(*   client = "kuasar-ctl" : find_sandbox, src/tools/kuasar-ctl/src/       *)
(*                           sandbox.rs                                    *)
(* The socket directory holds one subdirectory per sandbox; a              *)
(* subdirectory counts only once its socket file exists.  Sandboxes come   *)
(* and go while a resolution runs, and read_dir is not a snapshot: each    *)
(* entry is seen as it is at the moment the scan reaches it.  Identifiers  *)
(* are tuples of characters; only their prefix relation and their order    *)
(* matter.  A resolved pod is then connected to (exec_command of both      *)
(* clients, up to the handshake, which Handshake models); a kuasarctl      *)
(* connect that finds no socket re-lists the directory for its hint.      *)
(* Errors end the process with the exit code of error.rs (kuasar-ctl) or   *)
(* 1 (kuasarctl).                                                          *)
(***************************************************************************)
EXTENDS Naturals, Sequences, FiniteSets
LOCAL INSTANCE SequencesExt

CONSTANTS
  Chars,      \* the characters of identifiers, as a sequence in byte order
  Names,      \* the subdirectory names that may exist
  Inputs,     \* the identifiers or prefixes the user may type
  MaxChanges  \* bound on directory changes during one resolution

Clients == {"kuasarctl", "kuasar-ctl"}
ASSUME Names \subseteq Seq(ToSet(Chars)) /\ Inputs \subseteq Seq(ToSet(Chars))

(* A subdirectory is absent, present without its socket file, or a pod.    *)
EntryStates == {"absent", "nosock", "pod"}

(* The base directory exists and is readable, is missing, or cannot be     *)
(* listed (read_dir fails while paths below it still resolve).            *)
BaseStates == {"ok", "missing", "unreadable"}

(* The errors, abstracted to the variants exit codes tell apart.           *)
Errors == {"none", "notfound", "io", "connect"}

VARIABLES
  client,    \* which of the two clients resolves
  baseDir,   \* the state of the base directory (fixed)
  dir,       \* [Names -> EntryStates]: the socket directory
  prefix,    \* the identifier the user typed
  pc,        \* "exact", "readdir", "scan", "connect", "parent", "relist",
             \* "perm", then "connected" or "exit"
  toVisit,   \* entries the directory scan has not reached yet
  found,     \* the pods (kuasarctl) or matching pods (kuasar-ctl) seen
  result,    \* the outcome, once pc = "done"
  everPod,   \* names that were pods at some moment of this resolution
  changes,   \* directory changes so far
  err,       \* the error the process ends with
  hint,      \* the hint of a kuasarctl socket-not-found error
  podSince   \* names that were pods at some moment since that connect failed

vars == <<client, baseDir, dir, prefix, pc, toVisit, found, result, everPod,
          changes, err, hint, podSince>>
resolverVars == <<client, baseDir, dir, prefix, everPod, changes>>
connectVars == <<err, hint, podSince>>

Rank(c) == CHOOSE i \in 1..Len(Chars) : Chars[i] = c

(* String ordering of Rust: byte-wise lexicographic.                       *)
RECURSIVE LexLess(_, _)
LexLess(s, t) ==
  \/ s = <<>> /\ t # <<>>
  \/ /\ s # <<>> /\ t # <<>>
     /\ \/ Rank(Head(s)) < Rank(Head(t))
        \/ Head(s) = Head(t) /\ LexLess(Tail(s), Tail(t))

(* str::starts_with                                                        *)
StartsWith(name, p) == IsPrefix(p, name)

Ok(id) == [kind |-> "ok", id |-> id, listed |-> {}]
NotFound(listed) == [kind |-> "notfound", id |-> <<>>, listed |-> listed]
Ambiguous(listed) == [kind |-> "ambiguous", id |-> <<>>, listed |-> listed]
NoResult == [kind |-> "none", id |-> <<>>, listed |-> {}]

(* The state of an entry by name; a name that is not a possible           *)
(* subdirectory (the empty name, say) has no socket file.                  *)
Entry(d, n) == IF n \in Names THEN d[n] ELSE "absent"

-----------------------------------------------------------------------------
(* The reference: the resolution the spec describes (section 4.1), on one *)
(* snapshot d of the directory.                                            *)

SpecResolve(d, p) ==
  LET C == {n \in Names : d[n] = "pod"}
      M == {c \in C : StartsWith(c, p)}
  IN CASE p \in C              -> Ok(p)
       [] M = {}               -> NotFound(C)
       [] Cardinality(M) = 1   -> Ok(CHOOSE m \in M : TRUE)
       [] OTHER                -> Ambiguous(M)

-----------------------------------------------------------------------------
(* kuasarctl.                                                              *)

(* list_available_pods: the names found with a socket file, sorted.        *)
ListAvailablePods(pods) == SetToSortSeq(pods, LexLess)

(* Mutant: the exact-match check is missing; only prefix matches count.   *)
ResolvePodIdNoExact(available, p) ==
  LET matches == SelectSeq(available, LAMBDA n : StartsWith(n, p))
  IN CASE Len(matches) = 0       -> NotFound(ToSet(available))
       [] Len(matches) = 1       -> Ok(matches[1])
       [] OTHER                  -> Ambiguous(ToSet(matches))

(* Mutant: a unique match resolves to what the user typed.                 *)
ResolvePodIdEchoInput(available, p) ==
  LET matches == SelectSeq(available, LAMBDA n : StartsWith(n, p))
  IN CASE Contains(available, p) -> Ok(p)
       [] Len(matches) = 0       -> NotFound(ToSet(available))
       [] Len(matches) = 1       -> Ok(p)
       [] OTHER                  -> Ambiguous(ToSet(matches))

(* resolve_pod_id on the list: an exact match first, then the prefix       *)
(* matches; the errors list all pods (none found) or the matches.          *)
ResolvePodId(available, p) ==
  LET matches == SelectSeq(available, LAMBDA n : StartsWith(n, p))
  IN CASE Contains(available, p) -> Ok(p)
       [] Len(matches) = 0       -> NotFound(ToSet(available))
       [] Len(matches) = 1       -> Ok(matches[1])
       [] OTHER                  -> Ambiguous(ToSet(matches))

-----------------------------------------------------------------------------
(* kuasar-ctl.                                                             *)

(* Mutant: the exact path is accepted when the directory exists, without   *)
(* its socket file.                                                        *)
ExactCheckDirOnly ==
  /\ client = "kuasar-ctl" /\ pc = "exact"
  /\ IF Entry(dir, prefix) # "absent"
       THEN pc' = "connect" /\ result' = Ok(prefix)
       ELSE pc' = "readdir" /\ UNCHANGED result
  /\ UNCHANGED <<resolverVars, toVisit, found, connectVars>>

(* find_sandbox, exact path: <base>/<pod_id>/task.vsock exists.            *)
ExactCheck ==
  /\ client = "kuasar-ctl" /\ pc = "exact"
  /\ IF Entry(dir, prefix) = "pod"
       THEN pc' = "connect" /\ result' = Ok(prefix)
       ELSE pc' = "readdir" /\ UNCHANGED result
  /\ UNCHANGED <<resolverVars, toVisit, found, connectVars>>

(* The outcome of the scan over the matches it collected.                  *)
FindSandboxResult(matches) ==
  CASE matches = {}               -> NotFound({})
    [] Cardinality(matches) > 1   -> Ambiguous(matches)
    [] OTHER                      -> Ok(CHOOSE m \in matches : TRUE)

-----------------------------------------------------------------------------
(* The directory scan, common to list_available_pods and find_sandbox.     *)

(* Opening the directory: list_available_pods lists nothing when it is     *)
(* missing, find_sandbox reports the sandbox not found; a read_dir error   *)
(* ends the resolution with an I/O error.                                  *)
ReadDir ==
  /\ pc = "readdir"
  /\ IF baseDir = "ok" \/ (baseDir = "missing" /\ client = "kuasarctl")
       THEN /\ pc' = "scan"
            /\ toVisit' = IF baseDir = "ok" THEN Names ELSE {}
            /\ UNCHANGED <<result, err>>
       ELSE /\ pc' = "exit"
            /\ result' = IF baseDir = "missing" THEN NotFound({}) ELSE NoResult
            /\ err' = IF baseDir = "missing" THEN "notfound" ELSE "io"
            /\ UNCHANGED toVisit
  /\ UNCHANGED <<resolverVars, found, hint, podSince>>

(* One entry of fs::read_dir: kuasarctl keeps it when task.socket exists;  *)
(* kuasar-ctl when its name starts with pod_id and task.vsock exists.      *)
ScanEntry ==
  /\ pc \in {"scan", "relist"}
  /\ \E n \in toVisit :
       /\ toVisit' = toVisit \ {n}
       /\ found' = IF /\ dir[n] = "pod"
                      /\ client = "kuasarctl" \/ StartsWith(n, prefix)
                     THEN found \cup {n} ELSE found
  /\ UNCHANGED <<resolverVars, pc, result, connectVars>>

(* The scan is over: kuasarctl sorts and resolves, kuasar-ctl decides; a   *)
(* resolved pod is connected to, an error ends the process.               *)
ScanDone ==
  /\ pc = "scan" /\ toVisit = {}
  /\ LET r == IF client = "kuasarctl"
                THEN ResolvePodId(ListAvailablePods(found), prefix)
                ELSE FindSandboxResult(found)
     IN /\ result' = r
        /\ pc' = IF r.kind = "ok" THEN "connect" ELSE "exit"
        /\ err' = IF r.kind = "ok" THEN "none" ELSE "notfound"
  /\ UNCHANGED <<resolverVars, toVisit, found, hint, podSince>>

-----------------------------------------------------------------------------
(* Connecting to the resolved pod (exec_command of both clients).          *)

(* UnixStream::connect: a socket file may accept or refuse; a missing one  *)
(* is NotFound.  kuasar-ctl reports any failure as VsockConnectionFailed;  *)
(* kuasarctl builds a hint for NotFound and fails at once otherwise.       *)
Connect ==
  /\ pc = "connect"
  /\ \/ /\ Entry(dir, result.id) = "pod"
        /\ pc' \in {"connected", "exit"}
        /\ err' = IF pc' = "exit" THEN "connect" ELSE "none"
        /\ UNCHANGED podSince
     \/ /\ Entry(dir, result.id) # "pod"
        /\ pc' = IF client = "kuasarctl" THEN "parent" ELSE "exit"
        /\ err' = IF client = "kuasarctl" THEN "none" ELSE "connect"
        /\ podSince' = {n \in Names : dir[n] = "pod"}
  /\ UNCHANGED <<resolverVars, toVisit, found, result, hint>>

(* Mutant: the hint lists the pods the resolution found.                  *)
ParentNoRelist ==
  /\ pc = "parent"
  /\ pc' = "perm"
  /\ hint' = IF Entry(dir, result.id) = "absent"
               THEN [hint EXCEPT !.parentMissing = TRUE]
               ELSE [hint EXCEPT !.listed = found]
  /\ UNCHANGED <<resolverVars, toVisit, found, result, err, podSince>>

(* The hint names a missing pod directory; otherwise list_available_pods   *)
(* runs again (the base directory exists: the resolution listed it).      *)
Parent ==
  /\ pc = "parent"
  /\ IF Entry(dir, result.id) = "absent"
       THEN /\ pc' = "perm"
            /\ hint' = [hint EXCEPT !.parentMissing = TRUE]
            /\ UNCHANGED <<toVisit, found>>
       ELSE /\ pc' = "relist"
            /\ toVisit' = Names
            /\ found' = {}
            /\ UNCHANGED hint
  /\ UNCHANGED <<resolverVars, result, err, podSince>>

(* The re-listing is over: the pods it found become the hint.             *)
RelistDone ==
  /\ pc = "relist" /\ toVisit = {}
  /\ pc' = "perm"
  /\ hint' = [hint EXCEPT !.listed = found]
  /\ UNCHANGED <<resolverVars, toVisit, found, result, err, podSince>>

(* The socket path exists by now: its permissions join the hint; the call  *)
(* fails.                                                                  *)
Perm ==
  /\ pc = "perm"
  /\ pc' = "exit"
  /\ hint' = [hint EXCEPT !.perms = (Entry(dir, result.id) = "pod")]
  /\ err' = "connect"
  /\ UNCHANGED <<resolverVars, toVisit, found, result, podSince>>

(* KuasarCtlError::exit_code: SandboxNotFound 1, VsockConnectionFailed 3,  *)
(* IoError 126.                                                            *)
ErrorExitCode == [notfound |-> 1, io |-> 126, connect |-> 3]

(* kuasarctl's main logs any error and calls process::exit(1).             *)
KuasarctlExit == 1

(* The exit status of a failed run: kuasar-ctl's main exits with the       *)
(* error's exit_code.                                                      *)
ExitCode ==
  IF client = "kuasarctl" THEN KuasarctlExit ELSE ErrorExitCode[err]

-----------------------------------------------------------------------------
(* The sandboxer creates a sandbox directory, then its socket; it removes  *)
(* the directory of a sandbox that is gone.  A missing base directory      *)
(* stays missing.                                                          *)

ChangeDir ==
  /\ pc \notin {"connected", "exit"} /\ baseDir # "missing"
  /\ changes < MaxChanges
  /\ \E n \in Names :
       \E s \in CASE dir[n] = "absent" -> {"nosock"}
                  [] dir[n] = "nosock" -> {"pod", "absent"}
                  [] OTHER             -> {"absent"} :
         /\ dir' = [dir EXCEPT ![n] = s]
         /\ everPod' = IF s = "pod" THEN everPod \cup {n} ELSE everPod
         /\ podSince' = IF s = "pod" THEN podSince \cup {n} ELSE podSince
  /\ changes' = changes + 1
  /\ UNCHANGED <<client, baseDir, prefix, pc, toVisit, found, result, err, hint>>

Done ==
  /\ pc \in {"connected", "exit"}
  /\ UNCHANGED vars

-----------------------------------------------------------------------------

Init ==
  /\ client \in Clients
  /\ baseDir \in BaseStates
  /\ dir \in IF baseDir = "missing" THEN {[n \in Names |-> "absent"]}
                                    ELSE [Names -> EntryStates]
  /\ prefix \in Inputs
  /\ pc = IF client = "kuasarctl" THEN "readdir" ELSE "exact"
  /\ toVisit = {}
  /\ found = {}
  /\ result = NoResult
  /\ everPod = {n \in Names : dir[n] = "pod"}
  /\ changes = 0
  /\ err = "none"
  /\ hint = [parentMissing |-> FALSE, listed |-> {}, perms |-> FALSE]
  /\ podSince = {}

Next == ExactCheck \/ ReadDir \/ ScanEntry \/ ScanDone \/ Connect \/ Parent
        \/ RelistDone \/ Perm \/ ChangeDir \/ Done

Spec == Init /\ [][Next]_vars

-----------------------------------------------------------------------------
(* Properties.                                                             *)

TypeOK ==
  /\ client \in Clients /\ baseDir \in BaseStates
  /\ dir \in [Names -> EntryStates]
  /\ prefix \in Inputs
  /\ pc \in {"exact", "readdir", "scan", "connect", "parent", "relist", "perm",
             "connected", "exit"}
  /\ toVisit \subseteq Names /\ found \subseteq Names
  /\ result.kind \in {"none", "ok", "notfound", "ambiguous"}
  /\ result.kind = "ok" => result.id \in Names
  /\ everPod \subseteq Names /\ podSince \subseteq Names
  /\ changes \in 0..MaxChanges
  /\ err \in Errors /\ (err # "none" <=> pc = "exit")
  /\ pc = "exit" => ExitCode \in {1, 3, 126}
  /\ hint \in [parentMissing : BOOLEAN, listed : SUBSET Names, perms : BOOLEAN]

(* Whatever sandboxes come and go during the resolution, a resolved        *)
(* identifier names a sandbox whose socket existed at some moment of it,   *)
(* and which the user's text starts with.                                  *)
ResolvedPodExisted ==
  result.kind = "ok" => result.id \in everPod /\ StartsWith(result.id, prefix)

(* When the directory does not change during the call, both clients reach *)
(* the verdict section 4.1 of the spec prescribes: an exact match wins     *)
(* over prefix matches, a unique prefix match resolves, several are        *)
(* reported as ambiguous with every match listed, and none as not found.   *)
(* (Which pods a not-found error lists is left out: find_sandbox lists     *)
(* none.)  An unlistable directory only lets kuasar-ctl's exact path       *)
(* through, which agrees with the spec.                                    *)
Verdict(r) == [kind |-> r.kind, id |-> r.id,
               listed |-> IF r.kind = "ambiguous" THEN r.listed ELSE {}]

ResolveMatchesSpec ==
  (result.kind # "none" /\ changes = 0) => Verdict(result) = Verdict(SpecResolve(dir, prefix))

(* A kuasarctl socket-not-found error offers as available only pods whose *)
(* socket existed at some moment after that connect failed: the hint comes *)
(* from a fresh list_available_pods in the NotFound arm of exec_command,   *)
(* not from the listing the vanished pod was resolved from.               *)
ConnectHintFresh == hint.listed \subseteq podSince

=============================================================================
