----------------------------- MODULE Approvals -----------------------------
(***************************************************************************)
(* The ledger of approvals, x-approvals.jsonl, between the daemon and the   *)
(* operator's scripts (src/scheduling/approval-queue.ts,                    *)
(* approved-draft-queue.ts, scripts/x-experiments/_approvals.mjs), the two  *)
(* schedulers that act on it, emails (email-dispatcher.ts) and posts        *)
(* (content-cadence-scheduler.ts), and the two scripts that post by         *)
(* themselves (approval-queue.mjs apply, x-compose.mjs).                    *)
(*                                                                         *)
(* The daemon only appends.  A script reads the file, and writes all of it  *)
(* back: what the daemon appends in between is gone.  The daemon takes the  *)
(* last row of an entry, the scripts rate its first, and apply takes any.   *)
(***************************************************************************)
EXTENDS Naturals, Sequences, FiniteSets, SequencesExt

CONSTANTS
  Emails,       \* entries of kind email_outbound
  Posts,        \* entries of the kind the cadence posts
  Trusted,      \* those of Posts whose shape has earned trust
  Barred,       \* those of Emails the provider never takes
  Waiting,      \* emails proposed before the daemon started, in order
  Scripts,      \* operator's scripts that run at once
  Ticks,        \* bound: ticks of the dispatcher that could overlap
  MaxSends,     \* MAX_SENDS_PER_TICK
  MaxApply,     \* MAX_X_PER_APPLY
  MaxCommands,  \* bound: commands of the scripts that write the file
  MaxFaults,    \* bound: crashes of the daemon and failed writes
  None

Entries == Emails \cup Posts

ASSUME ApprovalsAssumption ==
  /\ Emails \cap Posts = {} /\ None \notin Entries
  /\ Trusted \subseteq Posts /\ Barred \subseteq Emails
  /\ Waiting \in Seq(Emails) /\ \A i, j \in 1..Len(Waiting) : Waiting[i] = Waiting[j] => i = j
  /\ MaxSends \in Nat \ {0} /\ {MaxApply, MaxCommands, MaxFaults} \subseteq Nat

VARIABLES
  file,        \* the ledger: its rows in order
  script,      \* per script: the file it will write, or None
  todo,        \* per script: the entries its apply has still to act on
  draft,       \* per script: the draft its compose is to post, or None
  email,       \* per tick of the dispatcher: the emails it has still to send
  post,        \* the draft the cadence is posting, or None
  touched,     \* contacts with a recent event, by their email
  logged,      \* posts whose text is in the posted log
  sent,        \* history, per entry: what the provider or the platform took of the daemon
  byScript,    \* history, per entry: what the platform took of the scripts
  missed,      \* history: entries of which a send left no row, or the row was lost
  unlogged,    \* history: posts the log missed
  commands, faults

cli == <<script, todo, draft, byScript>>
outbound == <<email, post, touched, logged, sent, unlogged>>
ledgerVars == <<file, cli, outbound, missed, commands, faults>>

-----------------------------------------------------------------------------
Status == {"pending", "approved", "rejected", "auto_applied", "applied"}
Row == [id : Entries, status : Status]

LedgerTypeOK ==
  /\ file \in Seq(Row)
  /\ script \in [Scripts -> {None} \cup Seq(Row)]
  /\ todo \in [Scripts -> Seq(Entries)] /\ draft \in [Scripts -> Posts \cup {None}]
  /\ email \in [Ticks -> Seq(Emails)]
  /\ post \in Posts \cup {None}
  /\ touched \subseteq Emails /\ logged \subseteq Posts
  /\ {sent, byScript} \subseteq [Entries -> Nat]
  /\ missed \subseteq Entries /\ unlogged \subseteq Posts
  /\ commands \in 0..MaxCommands /\ faults \in 0..MaxFaults

LedgerInit ==
  /\ file = [k \in 1..Len(Waiting) |-> [id |-> Waiting[k], status |-> "pending"]]
  /\ script = [s \in Scripts |-> None]
  /\ todo = [s \in Scripts |-> <<>>] /\ draft = [s \in Scripts |-> None]
  /\ email = [t \in Ticks |-> <<>>] /\ post = None
  /\ touched = {} /\ logged = {}
  /\ sent = [e \in Entries |-> 0] /\ byScript = sent /\ missed = {} /\ unlogged = {}
  /\ commands = 0 /\ faults = 0

Fault == faults < MaxFaults /\ faults' = faults + 1
NoFault == UNCHANGED faults

-----------------------------------------------------------------------------
(* Reading *)

In(e, f) == \E k \in DOMAIN f : f[k].id = e

\* latestById: the last row is the state of an entry.
Latest(e) == file[SelectLastInSeq(file, LAMBDA row : row.id = e)].status

Approved(e) == In(e, file) /\ Latest(e) \in {"approved", "auto_applied"}

\* collectConsumedIds: any row will do, wherever it stands.
Consumed(e) ==
  \E k \in DOMAIN file : file[k].id = e /\ file[k].status \in {"applied", "rejected"}

\* The entries of S in the order they were proposed; a rating keeps the place.
Oldest(S) ==
  LET firsts == {k \in DOMAIN file : /\ file[k].id \in S
                                     /\ \A j \in 1..(k - 1) : file[j].id # file[k].id}
      rank(k) == Cardinality({j \in firsts : j <= k})
  IN  [i \in 1..Cardinality(firsts) |-> file[CHOOSE k \in firsts : rank(k) = i].id]

-----------------------------------------------------------------------------
(* Writing *)

\* A new id.  (One whose proposal was overwritten stands for the next.)
Fresh(e) == /\ ~In(e, file) /\ sent[e] = 0 /\ byScript[e] = 0 /\ post # e
            /\ \A t \in Ticks : ~Contains(email[t], e)
            /\ \A s \in Scripts : /\ script[s] # None => ~In(e, script[s])
                               /\ ~Contains(todo[s], e) /\ draft[s] # e

\* proposeApproval by the outreach thermostat: emails are never trusted, and the
\* contact has had its "outreach:proposed" event from here on.
ProposesEmail(e) ==
  /\ Fresh(e)
  /\ file' = Append(file, [id |-> e, status |-> "pending"])
  /\ touched' = touched \cup {e}
  /\ UNCHANGED <<cli, email, post, logged, sent, missed, unlogged, commands>> /\ NoFault

\* rate: the first row of an entry gets the status.
Rated(e, rating) ==
  LET first == SelectInSeq(file, LAMBDA row : row.id = e)
  IN  [file EXCEPT ![first].status = rating]

Idle(s) == script[s] = None /\ todo[s] = <<>> /\ draft[s] = None

\* A script loads the file and changes its copy: a draft is proposed, and if its shape is
\* trusted x-compose is to post it; or the operator approves or rejects an entry.
Loads(s) ==
  /\ Idle(s) /\ commands < MaxCommands /\ commands' = commands + 1
  /\ \/ \E e \in Posts :
          LET trust == IF e \in Trusted THEN "auto_applied" ELSE "pending" IN
          /\ Fresh(e)
          /\ script' = [script EXCEPT ![s] = Append(file, [id |-> e, status |-> trust])]
          /\ draft' = [draft EXCEPT ![s] = IF e \in Trusted THEN e ELSE None]
     \/ \E e \in Entries, rating \in {"approved", "rejected"} :
          /\ In(e, file)
          /\ script' = [script EXCEPT ![s] = Rated(e, rating)]
          /\ UNCHANGED draft
  /\ UNCHANGED <<file, todo, byScript, outbound, missed>> /\ NoFault

\* apply: whatever has a row that says approved, and of the posts the first few.
StartsApply(s) ==
  LET approved == {e \in Entries : Contains(file, [id |-> e, status |-> "approved"])}
      posts == Oldest(approved \cap Posts)
      now == Range(SubSeq(posts, 1, Min({Len(posts), MaxApply})))
      work == Oldest((approved \cap Emails) \cup now)
  IN  /\ Idle(s) /\ commands < MaxCommands /\ commands' = commands + 1
      /\ work # <<>> /\ todo' = [todo EXCEPT ![s] = work]
      /\ UNCHANGED <<file, script, draft, byScript, outbound, missed>> /\ NoFault

\* applyEntry, and the load of the rate that follows: a post that was made is applied, or
\* rejected when the script failed before or after it; apply knows no emails.  A rating of
\* an entry that is no longer in the file ends the script.
ActsOn(s) ==
  /\ script[s] = None /\ todo[s] # <<>>
  /\ LET e == Head(todo[s]) IN
       \E rating \in {"applied", "rejected"}, posted \in BOOLEAN :
         /\ e \in Emails => ~posted
         /\ rating = "applied" => posted
         /\ byScript' = [byScript EXCEPT ![e] = IF posted THEN @ + 1 ELSE @]
         /\ IF In(e, file)
              THEN /\ script' = [script EXCEPT ![s] = Rated(e, rating)]
                   /\ todo' = [todo EXCEPT ![s] = Tail(@)]
              ELSE todo' = [todo EXCEPT ![s] = <<>>] /\ UNCHANGED script
  /\ UNCHANGED <<file, draft, outbound, missed, commands>> /\ NoFault

\* x-compose posts the draft it has proposed, or fails to; the ledger is told of neither.
PostsDraft(s) ==
  /\ script[s] = None /\ draft[s] # None /\ draft' = [draft EXCEPT ![s] = None]
  /\ \/ byScript' = [byScript EXCEPT ![draft[s]] = @ + 1]
     \/ UNCHANGED byScript
  /\ UNCHANGED <<file, script, todo, outbound, missed, commands>> /\ NoFault

\* writeQueue: rows appended since the load are overwritten.
Applied(f) == {e \in Entries : \E k \in DOMAIN f : f[k] = [id |-> e, status |-> "applied"]}

Writes(s) ==
  /\ script[s] # None
  /\ file' = script[s] /\ script' = [script EXCEPT ![s] = None]
  /\ missed' = missed \cup (Applied(file) \ Applied(script[s]))
  /\ UNCHANGED <<todo, draft, byScript, outbound, commands>> /\ NoFault

\* markApprovalApplied, markDraftConsumed: a row, or a warning in the log.
Marks(e) ==
  \/ file' = Append(file, [id |-> e, status |-> "applied"]) /\ UNCHANGED missed /\ NoFault
  \/ UNCHANGED file /\ missed' = missed \cup {e} /\ Fault

-----------------------------------------------------------------------------
(* EmailDispatcher.tick *)

\* Mutant: ticks do not look whether another one is at work.
FreeAlways(t) == email[t] = <<>>

\* executing
Free(t) == \A u \in Ticks : email[u] = <<>>

TickStarts(t) ==
  LET due == Oldest({e \in Emails : Approved(e)}) IN
  /\ Free(t) /\ due # <<>>
  /\ email' = [email EXCEPT ![t] = SubSeq(due, 1, Min({Len(due), MaxSends}))]
  /\ UNCHANGED <<file, cli, post, touched, logged, sent, missed, unlogged, commands>> /\ NoFault

NextEmail(t) == email' = [email EXCEPT ![t] = Tail(@)]

\* dispatchOne: an email that can never be sent is marked without a send; so is
\* one whose contact was touched of late.
Skips(t) ==
  /\ email[t] # <<>> /\ NextEmail(t) /\ Marks(Head(email[t]))
  /\ UNCHANGED <<cli, post, touched, logged, sent, unlogged, commands>>

\* The provider takes it: the event of the contact, then the row.
Sends(t) ==
  /\ email[t] # <<>> /\ NextEmail(t)
  /\ LET e == Head(email[t]) IN
       /\ e \notin touched \cup Barred
       /\ sent' = [sent EXCEPT ![e] = @ + 1]
       /\ touched' = touched \cup {e}
       /\ Marks(e)
  /\ UNCHANGED <<cli, post, logged, unlogged, commands>>

\* Mutant: a refusal ends the batch.
RefusedEndsBatch(t) ==
  /\ email[t] # <<>> /\ Head(email[t]) \notin touched /\ email' = [email EXCEPT ![t] = <<>>]
  /\ UNCHANGED <<file, cli, post, touched, logged, sent, missed, unlogged, commands>> /\ NoFault

\* The provider refuses, for now or for good, or the network fails: left for the next tick.
Refused(t) ==
  /\ email[t] # <<>> /\ Head(email[t]) \notin touched /\ NextEmail(t)
  /\ UNCHANGED <<file, cli, post, touched, logged, sent, missed, unlogged, commands>> /\ NoFault

\* The cooldown of a contact passes.
Cools(e) ==
  /\ e \in touched /\ touched' = touched \ {e}
  /\ UNCHANGED <<file, cli, email, post, logged, sent, missed, unlogged, commands>> /\ NoFault

-----------------------------------------------------------------------------
(* ContentCadenceScheduler.tick, the bypass for approved drafts *)

\* selectApprovedDraft, once the day's budget, the gap to the last post and the
\* agents (all left out) allow for a post.
PostStarts ==
  LET due == Oldest({e \in Posts : Approved(e) /\ ~Consumed(e) /\ e \notin logged}) IN
  /\ post = None /\ due # <<>> /\ post' = Head(due)
  /\ UNCHANGED <<file, cli, email, touched, logged, sent, missed, unlogged, commands>>
  /\ NoFault

\* The executor posts and logs the text, as far as it can; then the row.
Posted ==
  /\ post # None /\ post' = None
  /\ sent' = [sent EXCEPT ![post] = @ + 1]
  /\ \/ logged' = logged \cup {post} /\ UNCHANGED unlogged
     \/ unlogged' = unlogged \cup {post} /\ UNCHANGED logged
  /\ Marks(post)
  /\ UNCHANGED <<cli, email, touched, commands>>

\* A post that failed is not consumed.
PostFails ==
  /\ post # None /\ post' = None
  /\ UNCHANGED <<file, cli, email, touched, logged, sent, missed, unlogged, commands>>
  /\ NoFault

-----------------------------------------------------------------------------
\* The daemon dies, and what was under way may have gone out unrecorded.
Crashes ==
  /\ Fault
  /\ email' = [t \in Ticks |-> <<>>] /\ post' = None
  /\ \E out \in SUBSET (
         ({Head(email[t]) : t \in {u \in Ticks : email[u] # <<>>}} \ (touched \cup Barred))
         \cup ({post} \ {None})) :
       /\ sent' = [e \in Entries |-> IF e \in out THEN sent[e] + 1 ELSE sent[e]]
       /\ missed' = missed \cup out /\ unlogged' = unlogged \cup (out \cap Posts)
  /\ UNCHANGED <<file, cli, touched, logged, commands>>

LedgerNext ==
  \/ \E e \in Emails : ProposesEmail(e) \/ Cools(e)
  \/ \E s \in Scripts : Loads(s) \/ StartsApply(s) \/ ActsOn(s) \/ PostsDraft(s) \/ Writes(s)
  \/ \E t \in Ticks : TickStarts(t) \/ Skips(t) \/ Sends(t) \/ Refused(t)
  \/ PostStarts \/ Posted \/ PostFails
  \/ Crashes

LedgerSpec == LedgerInit /\ [][LedgerNext]_ledgerVars

\* Ticks go on, a send ends, and the provider takes an email that is not barred when it is
\* asked about it again and again.
Settles(e) == \E t \in Ticks : email[t] # <<>> /\ Head(email[t]) = e /\ (Skips(t) \/ Sends(t))

Fairness ==
  /\ \A t \in Ticks : /\ WF_ledgerVars(TickStarts(t))
                     /\ WF_ledgerVars(Skips(t) \/ Sends(t) \/ Refused(t))
  /\ \A e \in Emails \ Barred : SF_ledgerVars(Settles(e))

LedgerFairSpec == LedgerSpec /\ Fairness

-----------------------------------------------------------------------------
(* Properties *)

\* The daemon sends nothing twice while the row of its send stands: not when ticks overlap,
\* a rating or apply rewrites an older row, an entry is approved again, or a send is
\* retried.  A post needs its text to be missing from the log as well.
SentTwiceOnlyUnrecorded ==
  \A e \in Entries : sent[e] > 1 => e \in missed /\ (e \in Posts => e \in unlogged)

\* Every approved email the provider may take leaves the ledger's list: it is sent, marked as
\* one that will not be, or its approval withdrawn, though only MAX_SENDS_PER_TICK are tried
\* at a time and those it refuses come first again.  Only as many of the barred as a tick
\* takes, approved and never taken off the list, can keep it waiting.
ApprovedAreSettled ==
  \A e \in Emails \ Barred :
    Approved(e) ~> ~Approved(e) \/ Cardinality({b \in Barred : Approved(b)}) >= MaxSends
=============================================================================
