---------------------------- MODULE AgenticCoder ----------------------------
(***************************************************************************)
(* The greenfield coder (app/agents/coder_agentic.py): a language model    *)
(* that calls tools (coder_tools.py) in a directory of its workflow        *)
(* (coder_sandbox.py).  The attempts of one activity share the directory:  *)
(* a failed attempt leaves it, the next is staged over it, attempts        *)
(* overlap when a heartbeat is late, and a shell, verify.sh's too, can     *)
(* outlive the attempt that started it.                                    *)
(*                                                                         *)
(* The content of a file is known by who wrote it last, of verify.sh only  *)
(* that it is there.  What a model answers, what a shell writes and        *)
(* whether verify.sh passes are free.                                      *)
(***************************************************************************)
EXTENDS Integers

CONSTANTS
  Attempts,       \* attempts of the activity
  Paths,          \* files of the workspace besides verify.sh
  MaxIterations   \* MAX_ITERATIONS: messages of the model per attempt

ASSUME MaxIterationsAssumption == MaxIterations \in Nat \ {0}

None == "none"
Binary == "binary"                      \* what is no UTF-8
Free == "free"                          \* what nobody vouches for
VerifySh == "verify.sh"
Files == Paths \cup {VerifySh}
Contents == [Files -> Attempts \cup {"template", Binary, None}]
Nothing == [f \in Files |-> None]       \* the directory removed, or empty

VARIABLES
  template,   \* files of the template the brief calls for, {} if none matches
  skipped,    \* files in a directory list_files skips, or past its 2000 entries
  dir,        \* the workspace
  pc,         \* attempt -> what it waits for, or how it ended
  iter,       \* attempt -> iterations
  green,      \* attempt -> stats["last_verify_exit"] == 0
  todo,       \* attempt -> files it is still to read, and then to remove
  taken,      \* attempt -> the files of its result
  threads,    \* attempts with a shell that runs and that they do not wait for
  vouched,    \* history: attempt -> the files its green verify left, Free if written since
  meanwhile   \* history: attempt -> files others have written since its verify
              \*   began that is running, or since it has read them for its result

inputs == <<template, skipped>>
endVars == <<todo, taken>>
ghosts == <<vouched, meanwhile>>
vars == <<inputs, dir, pc, iter, green, endVars, threads, ghosts>>

Shells == {"verify", "bash"}
Running == {"asking", "tools", "reading", "removing"} \cup Shells

TypeOK ==
  /\ template \subseteq Files /\ skipped \subseteq Paths
  /\ dir \in Contents
  /\ pc \in [Attempts -> {"waiting", "done", "failed"} \cup Running]
  /\ iter \in [Attempts -> 0 .. MaxIterations]
  /\ \A a \in Attempts : pc[a] \in Running => iter[a] < MaxIterations
  /\ green \in [Attempts -> BOOLEAN]
  /\ todo \in [Attempts -> SUBSET Files] /\ taken \in [Attempts -> Contents]
  /\ threads \subseteq Attempts
  /\ vouched \in [Attempts -> [Files -> Attempts \cup {"template", Binary, None, Free}]]
  /\ meanwhile \in [Attempts -> SUBSET Files]

Init ==
  /\ template \in {t \in SUBSET Files : t = {} \/ VerifySh \in t}
  /\ skipped \in SUBSET Paths
  /\ dir = Nothing
  /\ pc = [a \in Attempts |-> "waiting"]
  /\ iter = [a \in Attempts |-> 0]
  /\ green = [a \in Attempts |-> FALSE]
  /\ todo = [a \in Attempts |-> {}]
  /\ taken = [a \in Attempts |-> Nothing]
  /\ threads = {}
  /\ vouched = [a \in Attempts |-> Nothing]
  /\ meanwhile = [a \in Attempts |-> {}]

\* Does it matter to b what others write to f now?
Minds(b, f) == pc[b] \in {"verify", "removing"} \/ (pc[b] = "reading" /\ f \notin todo[b])

\* f is written, or removed, by one of the attempts `own`, or by a shell that
\* nobody waits for (own = {}).
Change(own, fs, new) ==
  /\ dir' = [f \in Files |-> IF f \in fs THEN new ELSE dir[f]]
  /\ vouched' = [b \in Attempts |->
       [f \in Files |-> IF green[b] /\ f \in fs THEN Free ELSE vouched[b][f]]]
  /\ meanwhile' = [b \in Attempts |->
       meanwhile[b] \cup {f \in fs : b \notin own /\ Minds(b, f)}]

\* What a writes to f.
Text(a, f) == IF f = VerifySh THEN "template" ELSE a

\* a's run of the loop is over, and what it remembers is gone.
Forget(a) ==
  /\ iter' = [iter EXCEPT ![a] = 0]
  /\ green' = [green EXCEPT ![a] = FALSE]
  /\ todo' = [todo EXCEPT ![a] = {}]
  /\ taken' = [taken EXCEPT ![a] = Nothing]
  /\ vouched' = [vouched EXCEPT ![a] = Nothing]
  /\ meanwhile' = [meanwhile EXCEPT ![a] = {}]

------------------------------------------------------------------------------
(* run_agentic_coder: staging and the loop.                                *)

\* The directory is made unless it is there, and the template copied over it.
Begin(a) ==
  /\ pc[a] = "waiting"
  /\ Change({a}, template, "template")
  /\ pc' = [pc EXCEPT ![a] = "asking"]
  /\ UNCHANGED <<inputs, iter, green, endVars, threads>>

\* The model calls tools.
CallTools(a) ==
  /\ iter' = [iter EXCEPT ![a] = @ + 1]
  /\ pc' = [pc EXCEPT ![a] = "tools"]
  /\ UNCHANGED <<todo, meanwhile>>

\* The model has finished, and the workspace is listed.
ListFiles(a) ==
  /\ pc' = [pc EXCEPT ![a] = "reading"]
  /\ todo' = [todo EXCEPT ![a] = {f \in Files \ skipped : dir[f] # None}]
  /\ meanwhile' = [meanwhile EXCEPT ![a] = {}]
  /\ UNCHANGED iter

\* Mutant of Answer: the cap is looked at one message too late.
AnswerOffByOne(a) ==
  /\ pc[a] = "asking"
  /\ ListFiles(a) \/ (iter[a] < MaxIterations /\ CallTools(a))
  /\ UNCHANGED <<inputs, dir, green, taken, threads, vouched>>

\* A message of the model: it calls tools or has finished.  At the cap the
\* loop is left before the message's tools run.
Answer(a) ==
  /\ pc[a] = "asking"
  /\ ListFiles(a) \/ (iter[a] + 1 < MaxIterations /\ CallTools(a))
  /\ UNCHANGED <<inputs, dir, green, taken, threads, vouched>>

\* The provider fails: the activity goes on with the one-shot coder, and the
\* workspace stays for inspection.
ProviderFails(a) ==
  /\ pc[a] = "asking"
  /\ pc' = [pc EXCEPT ![a] = "failed"]
  /\ Forget(a)
  /\ UNCHANGED <<inputs, dir, threads>>

\* The results of the tools are sent.
Ask(a) ==
  /\ pc[a] = "tools"
  /\ pc' = [pc EXCEPT ![a] = "asking"]
  /\ UNCHANGED <<inputs, dir, iter, green, endVars, threads, ghosts>>

\* What a has started in the shell may go on without it: a thread cannot be
\* cancelled, and a timeout kills bash, not what bash has started.
LeavesShell(a) == threads' \in {threads, threads \cup {a}}

\* The attempt is cancelled or its worker dies.
Abandon(a) ==
  /\ pc[a] \in Running
  /\ pc' = [pc EXCEPT ![a] = "failed"]
  /\ IF pc[a] \in Shells THEN LeavesShell(a) ELSE UNCHANGED threads
  /\ Forget(a)
  /\ UNCHANGED <<inputs, dir>>

------------------------------------------------------------------------------
(* run_agentic_coder: the snapshot, the verdict and the removal.           *)

\* A listed file is read, unless it is gone or no text.
ReadFile(a, f) ==
  /\ pc[a] = "reading" /\ f \in todo[a]
  /\ todo' = [todo EXCEPT ![a] = @ \ {f}]
  /\ taken' = [taken EXCEPT ![a][f] = IF dir[f] = Binary THEN None ELSE dir[f]]
  /\ UNCHANGED <<inputs, dir, pc, iter, green, threads, ghosts>>

Return(a) ==
  /\ pc' = [pc EXCEPT ![a] = "done"]
  /\ Forget(a)

\* Mutant of Judge: the workspace is destroyed before it has been read.
JudgeEarly(a) ==
  /\ pc[a] = "reading"
  /\ \/ ~green[a] /\ Return(a)
     \/ /\ green[a]
        /\ pc' = [pc EXCEPT ![a] = "removing"]
        /\ todo' = [todo EXCEPT ![a] = Files]
        /\ UNCHANGED <<iter, green, taken, ghosts>>
  /\ UNCHANGED <<inputs, dir, threads>>

\* The verdict is the last verify's, of any stage; a green run's workspace is
\* destroyed.
Judge(a) ==
  /\ pc[a] = "reading" /\ todo[a] = {}
  /\ \/ ~green[a] /\ Return(a)
     \/ /\ green[a]
        /\ pc' = [pc EXCEPT ![a] = "removing"]
        /\ todo' = [todo EXCEPT ![a] = Files]
        /\ UNCHANGED <<iter, green, taken, ghosts>>
  /\ UNCHANGED <<inputs, dir, threads>>

\* rmtree goes through the directory file by file and ignores what it cannot remove.
RemoveFile(a, f) ==
  /\ pc[a] = "removing" /\ f \in todo[a]
  /\ todo' = [todo EXCEPT ![a] = @ \ {f}]
  /\ \/ Change({a}, {f}, None)
     \/ UNCHANGED <<dir, vouched, meanwhile>>
  /\ UNCHANGED <<inputs, pc, iter, green, taken, threads>>

Removed(a) ==
  /\ pc[a] = "removing" /\ todo[a] = {}
  /\ Return(a)
  /\ UNCHANGED <<inputs, dir, threads>>

------------------------------------------------------------------------------
(* The tools.  list_files and read_file change nothing.                    *)

\* write_file: refused if the path leaves the workspace or the text is long.
WriteFile(a, f) ==
  /\ pc[a] = "tools"
  /\ Change({a}, {f}, Text(a, f))
  /\ UNCHANGED <<inputs, pc, iter, green, endVars, threads>>

\* The verdict is ok, whatever it was before.
Record(a, ok) ==
  /\ green' = [green EXCEPT ![a] = ok]
  /\ vouched' = [vouched EXCEPT ![a] =
       IF ok THEN [f \in Files |-> IF f \in meanwhile[a] THEN Free ELSE dir[f]] ELSE Nothing]

\* run_verify: without a verify.sh it fails at once.
RunVerify(a) ==
  /\ pc[a] = "tools"
  /\ \/ /\ dir[VerifySh] = None
        /\ Record(a, FALSE) /\ UNCHANGED pc
     \/ /\ dir[VerifySh] # None
        /\ pc' = [pc EXCEPT ![a] = "verify"]
        /\ UNCHANGED <<green, vouched>>
  /\ meanwhile' = [meanwhile EXCEPT ![a] = {}]
  /\ UNCHANGED <<inputs, dir, iter, endVars, threads>>

\* Mutant of Verified: one stats record for all attempts of the process.
VerifiedShared(a) ==
  /\ pc[a] = "verify"
  /\ pc' = [pc EXCEPT ![a] = "tools"]
  /\ \E ok \in BOOLEAN : green' = [b \in Attempts |-> ok]
  /\ vouched' = [vouched EXCEPT ![a] = dir]
  /\ LeavesShell(a)
  /\ UNCHANGED <<inputs, dir, iter, endVars, meanwhile>>

\* verify.sh exits, or is killed after five minutes.
Verified(a) ==
  /\ pc[a] = "verify"
  /\ pc' = [pc EXCEPT ![a] = "tools"]
  /\ \E ok \in BOOLEAN : Record(a, ok)
  /\ meanwhile' = [meanwhile EXCEPT ![a] = {}]
  /\ LeavesShell(a)
  /\ UNCHANGED <<inputs, dir, iter, endVars>>

\* bash_exec.
RunBash(a) ==
  /\ pc[a] = "tools"
  /\ pc' = [pc EXCEPT ![a] = "bash"]
  /\ UNCHANGED <<inputs, dir, iter, green, endVars, threads, ghosts>>

\* bash_exec's command ends or is killed; so does a verify.sh whose output is
\* no text, which raises in the tool and leaves the old verdict.
ShellEnds(a) ==
  /\ pc[a] \in Shells
  /\ pc' = [pc EXCEPT ![a] = "tools"]
  /\ meanwhile' = [meanwhile EXCEPT ![a] = {}]
  /\ LeavesShell(a)
  /\ UNCHANGED <<inputs, dir, iter, green, endVars, vouched>>

\* A shell writes or removes f: a command, verify.sh, which installs, generates
\* and builds, or what is left of either.
ShellWrites(a, f) ==
  /\ \E new \in {Text(a, f), None} \cup {Binary : g \in {f} \cap Paths} :
       \/ pc[a] \in Shells /\ Change({a}, {f}, new)
       \/ a \in threads /\ Change({}, {f}, new)
  /\ UNCHANGED <<inputs, pc, iter, green, endVars, threads>>

ThreadEnds(a) ==
  /\ a \in threads /\ threads' = threads \ {a}
  /\ UNCHANGED <<inputs, dir, pc, iter, green, endVars, ghosts>>

Next == \E a \in Attempts :
  \/ Begin(a) \/ Answer(a) \/ ProviderFails(a) \/ Ask(a) \/ Abandon(a)
  \/ Judge(a) \/ Removed(a)
  \/ RunVerify(a) \/ Verified(a) \/ RunBash(a) \/ ShellEnds(a) \/ ThreadEnds(a)
  \/ \E f \in Files : ReadFile(a, f) \/ RemoveFile(a, f) \/ WriteFile(a, f) \/ ShellWrites(a, f)

Spec == Init /\ [][Next]_vars

------------------------------------------------------------------------------
(* Properties.                                                             *)

\* A green verdict is about what is delivered: of all that the snapshot does not
\* pass over, the result holds what the attempt's last verify.sh left, but for
\* files that somebody has written since, the model's own tools or anybody
\* else, or while it ran.  That holds whatever earlier attempts had left there,
\* however their verify had ended, and whatever still runs.
GreenVouches ==
  \A a \in Attempts : pc[a] = "removing" =>
    \A f \in Files \ skipped :
      vouched[a][f] \in {taken[a][f], Free} \/ (vouched[a][f] = Binary /\ taken[a][f] = None)

\* What an attempt removes is in its result as it was, or no text, or passed
\* over by the listing, or was written by somebody else since it was read or passed over.
NothingLost ==
  [][\A a \in Attempts : \A f \in todo[a] \ todo'[a] :
       pc[a] = "removing" /\ dir'[f] # dir[f] =>
         \/ dir[f] = Binary \/ f \in skipped \/ f \in meanwhile[a]
         \/ taken[a][f] = dir[f]]_vars
=============================================================================
