----------------------------- MODULE CorpusInstall -----------------------------
(***************************************************************************)
(* DraftCorpusInstaller of draft_corpus_install.py: a fixed list of public *)
(* files is downloaded one after the other, each into a .part file that a  *)
(* later attempt may resume, then built into a corpus.  The process may    *)
(* die between any two writes; the user may cancel; a server may change a  *)
(* file, cut a reply short or forget to tag it.                            *)
(*                                                                         *)
(* The content of a file is the sequence of its blocks, each named by the  *)
(* version of the file it was taken from; its digest is the content.       *)
(***************************************************************************)
EXTENDS Naturals, Sequences

CONSTANTS
    Assets,      \* the files of the manifest
    Order,       \* the order they are downloaded in
    Pinned,      \* those whose size and digest the manifest knows (nflverse);
                 \* of the others (ffc_adp) it knows neither.  A release asset
                 \* published without a digest, of which it would know the size
                 \* alone, is left out
    Tagged,      \* those whose server sends an ETag with each reply
    Ranged,      \* those whose server honours a Range header
    Versions,    \* the versions of a file
    Size,        \* [Versions -> blocks]
    MaxSize,     \* [Assets -> blocks], maximum_bytes of the asset
    SaveEvery,   \* blocks between two saves of the state (_STATE_WRITE_BYTES)
    Elsewhere,   \* [Assets -> contents], the files of older installs
    None,        \* no file, no tag, no record
    MaxChanges,  \* bound: how often a source publishes another version
    MaxFaults,   \* bound: exceptions, replies cut short or of another version
    MaxCancels,  \* bound: cancellations
    MaxCrashes   \* bound: deaths of the process

Content == Seq(Versions)

(* A row of state.json, the whole of it, and a receipt. *)
Row == [done : BOOLEAN, sha : Content \cup {None}, tag : Versions \cup {None}]

Statuses ==
    {"downloading", "building", "paused", "failed", "incompatible", "ready"}

State == [status : Statuses, rows : [Assets -> Row]]

Receipt ==
    [sources : [Assets -> Content \cup {None}],
     corpus : [Assets -> Content \cup {None}]]

ASSUME AssetsAssumption ==
    /\ Order \in Seq(Assets)
    /\ \A a \in Assets : \E i \in 1..Len(Order) : Order[i] = a
    /\ Pinned \subseteq Assets
    /\ Size \in [Versions -> Nat]
    /\ MaxSize \in [Assets -> Nat]
    /\ SaveEvery \in Nat \ {0}
    /\ None \notin Versions
    /\ None \notin Content \cup State \cup Receipt \cup [Pinned -> Versions]

VARIABLES
    source,    \* the version each server has
    manifest,  \* disk: the cached manifest, the version of each pinned file
    final,     \* disk: downloads/<file>
    part,      \* disk: downloads/<file>.part, empty when there is none
    saved,     \* disk: state.json
    corpora,   \* disk: the corpora of the DraftFileStore
    receipt,   \* disk: receipt.json
    pc,        \* memory: where install() is
    at,        \* memory: index of the asset under way
    rows,      \* memory: state["assets"]
    reply,     \* memory: the version being received and where it began
    cancel,    \* memory: the job's cancel event
    forgot,    \* history: a resume was sent without If-Range, or a crash
               \* lost a tag that was not saved
    changes, faults, cancels, crashes

disk == <<manifest, final, part, saved, corpora, receipt>>
memory == <<pc, at, rows, reply, cancel>>
counters == <<changes, faults, cancels, crashes>>
vars == <<source, disk, memory, forgot, counters>>

InitialRow == [done |-> FALSE, sha |-> None, tag |-> None]
InitialRows == [a \in Assets |-> InitialRow]

(* The content of a whole file, and whether a file mixes two versions. *)
Whole(v) == [i \in 1..Size[v] |-> v]
Mixed(c) == \E i, j \in 1..Len(c) : c[i] # c[j]

NoReply == [version |-> None, from |-> 0]

(* _saved_asset_is_valid: the size and the digest the manifest pins, or    *)
(* the digest that was recorded when the file was downloaded.              *)
ExpectedOf(a, row) == IF a \in Pinned THEN Whole(manifest[a]) ELSE row.sha

SavedAssetIsValid(c, a, row) ==
    /\ c # None
    /\ Len(c) <= MaxSize[a]
    /\ c = ExpectedOf(a, row)

-----------------------------------------------------------------------------
Init ==
    /\ source \in [Assets -> Versions]
    /\ manifest = None
    /\ final = [a \in Assets |-> None]
    /\ part = [a \in Assets |-> <<>>]
    /\ saved = None
    /\ corpora = {}
    /\ receipt = None
    /\ pc = "idle" /\ at = 1 /\ rows = InitialRows /\ reply = NoReply
    /\ cancel = FALSE
    /\ forgot = [a \in Assets |-> FALSE]
    /\ changes = 0 /\ faults = 0 /\ cancels = 0 /\ crashes = 0

(* The asset whose turn it is. *)
This == Order[at]

(* How install() ends: it writes the status it ends with, if it has loaded *)
(* its state, and gives the installer free (the finally clause).           *)
HasState == pc \notin {"idle", "manifest", "begin"}

(* The rows as they are written: that of a promoted file is brought up to  *)
(* date before the write that may raise.                                   *)
RowsToSave ==
    IF pc = "record"
    THEN [rows EXCEPT ![This].done = TRUE, ![This].sha = final[This]]
    ELSE rows

End(status) ==
    /\ saved' = IF HasState THEN [status |-> status, rows |-> RowsToSave] ELSE saved
    /\ pc' = "idle" /\ at' = 1 /\ rows' = InitialRows /\ reply' = NoReply
    /\ cancel' = FALSE

Pause == End("paused")
Break ==
    End(IF pc \in {"build", "persist", "receipt", "finish"} THEN "incompatible"
                                                            ELSE "failed")

Save(status, newRows) == saved' = [status |-> status, rows |-> newRows]

-----------------------------------------------------------------------------
(* install() is called again while nothing runs: _running is False. *)
Start ==
    /\ pc = "idle"
    /\ pc' = "manifest"
    /\ UNCHANGED <<source, disk, at, rows, reply, cancel, forgot, counters>>

(* _manifest: the cached pins, or those of the releases as they are now, *)
(* unless the user has cancelled or a file exceeds its limit.            *)
CanPin == ~cancel /\ \A a \in Pinned : Size[source[a]] <= MaxSize[a]

Resolve ==
    /\ pc = "manifest"
    /\ IF manifest # None \/ CanPin
       THEN /\ manifest' = IF manifest # None THEN manifest
                          ELSE [a \in Pinned |-> source[a]]
            /\ pc' = "begin"
            /\ UNCHANGED <<saved, at, rows, reply, cancel>>
       ELSE Pause /\ UNCHANGED manifest
    /\ UNCHANGED <<source, final, part, corpora, receipt, forgot, counters>>

(* A receipt whose corpus is still there is the answer; else the saved     *)
(* state is taken up, or a new one begun, and saved as downloading.        *)
Begin ==
    /\ pc = "begin"
    /\ \/ /\ receipt # None
          /\ receipt.corpus \in corpora
          /\ End("ready")
       \/ /\ ~(receipt # None /\ receipt.corpus \in corpora)
          /\ rows' = IF saved = None THEN InitialRows ELSE saved.rows
          /\ Save("downloading", rows')
          /\ pc' = "next" /\ at' = 1
          /\ UNCHANGED <<reply, cancel>>
    /\ UNCHANGED <<source, manifest, final, part, corpora, receipt, forgot,
                   counters>>

(* The loop over the assets: the cancel event is looked at before each. *)
CancelNext ==
    /\ pc = "next" /\ at <= Len(Order)
    /\ cancel
    /\ Pause
    /\ UNCHANGED <<source, manifest, final, part, corpora, receipt, forgot,
                   counters>>

Ready(a) == pc = "next" /\ at <= Len(Order) /\ ~cancel /\ a = This

\* Mutant of UseFinal: a file that is kept leaves its row as it was loaded.
UseFinalUnrecorded(a) ==
    /\ Ready(a)
    /\ SavedAssetIsValid(final[a], a, rows[a])
    /\ at' = at + 1
    /\ UNCHANGED <<source, disk, pc, rows, reply, cancel, forgot, counters>>

(* A file that is there and valid is kept; the row is saved with the next. *)
UseFinal(a) ==
    /\ Ready(a)
    /\ SavedAssetIsValid(final[a], a, rows[a])
    /\ rows' = [rows EXCEPT ![a].done = TRUE, ![a].sha = final[a]]
    /\ at' = at + 1
    /\ UNCHANGED <<source, disk, pc, reply, cancel, forgot, counters>>

(* _reuse_pinned_asset: the verified download of an older install. *)
Reusable(a) ==
    {c \in Elsewhere[a] : a \in Pinned /\ SavedAssetIsValid(c, a, InitialRow)}

ReusePinned(a) ==
    /\ Ready(a)
    /\ ~SavedAssetIsValid(final[a], a, rows[a])
    /\ \E c \in Reusable(a) : final' = [final EXCEPT ![a] = c]
    /\ pc' = "record"
    /\ UNCHANGED <<source, manifest, part, saved, corpora, receipt, at, rows,
                   reply, cancel, forgot, counters>>

\* Mutant of PartIsComplete: a .part file of the expected size is resumed too.
PartIsNeverComplete(a) == FALSE

(* What is there is of no use: the file goes, and the .part file too when  *)
(* it is too long or has the expected size but not the expected digest; a  *)
(* .part file that is the expected one is promoted.                        *)
PartIsComplete(a) == a \in Pinned /\ Len(part[a]) = Size[manifest[a]]

PartAccepted(a) == PartIsComplete(a) /\ part[a] = Whole(manifest[a])

KeptPart(a) ==
    IF Len(part[a]) > MaxSize[a] \/ PartIsComplete(a) THEN <<>> ELSE part[a]

LookAtPart(a) ==
    /\ Ready(a)
    /\ ~SavedAssetIsValid(final[a], a, rows[a])
    /\ Reusable(a) = {}
    /\ IF PartAccepted(a)
       THEN /\ final' = [final EXCEPT ![a] = part[a]]
            /\ part' = [part EXCEPT ![a] = <<>>]
            /\ pc' = "record"
       ELSE /\ final' = [final EXCEPT ![a] = None]
            /\ part' = [part EXCEPT ![a] = KeptPart(a)]
            /\ pc' = "request"
    /\ UNCHANGED <<source, manifest, saved, corpora, receipt, at, rows, reply,
                   cancel, forgot, counters>>

\* Mutant of Continues: Range without If-Range, whatever tag is known.
ContinuesUntagged(a, v) == Len(part[a]) > 0 /\ a \in Ranged

(* The request asks for the rest of a .part file, under If-Range when the  *)
(* row has a tag; the server has version v.  Honouring the range it sends  *)
(* the rest (206), or refuses when there is no rest (416); otherwise it    *)
(* sends the whole file (200), which truncates the .part file.             *)
Continues(a, v) ==
    /\ Len(part[a]) > 0
    /\ a \in Ranged
    /\ rows[a].tag \in {None, v}

TagAfter(a, v) == IF a \in Tagged THEN v ELSE rows[a].tag

Receive(a, v) ==
    /\ rows' = [rows EXCEPT ![a].tag = TagAfter(a, v)]
    /\ pc' = "body"
    /\ UNCHANGED <<saved, at, cancel>>

PartialReply(a, v) ==
    /\ pc = "request" /\ a = This
    /\ Continues(a, v)
    /\ Len(part[a]) < Size[v]
    /\ Receive(a, v)
    /\ reply' = [version |-> v, from |-> Len(part[a])]
    /\ forgot' = [forgot EXCEPT ![a] = @ \/ rows[a].tag = None]
    /\ UNCHANGED part

NothingLeftReply(a, v) ==
    /\ pc = "request" /\ a = This
    /\ Continues(a, v)
    /\ Len(part[a]) >= Size[v]
    /\ Break
    /\ UNCHANGED <<part, forgot>>

FullReply(a, v) ==
    /\ pc = "request" /\ a = This
    /\ ~Continues(a, v)
    /\ Receive(a, v)
    /\ reply' = [version |-> v, from |-> 0]
    /\ part' = [part EXCEPT ![a] = <<>>]
    /\ UNCHANGED forgot

(* A reply whose Content-Length says it is too long is not read. *)
TooLongReply(a, v) ==
    /\ pc = "request" /\ a = This
    /\ Size[v] > MaxSize[a]
    /\ Break
    /\ UNCHANGED <<part, forgot>>

Reply(a, v) ==
    \/ PartialReply(a, v)
    \/ NothingLeftReply(a, v)
    \/ FullReply(a, v)
    \/ TooLongReply(a, v)

(* The server answers with what it has, or (a fault) with another version. *)
Request(a) ==
    /\ \/ /\ Reply(a, source[a])
          /\ UNCHANGED faults
       \/ /\ faults < MaxFaults
          /\ faults' = faults + 1
          /\ \E v \in Versions \ {source[a]} : Reply(a, v)
    /\ UNCHANGED <<source, manifest, final, corpora, receipt, changes, cancels,
                   crashes>>

-----------------------------------------------------------------------------
(* The loop over the chunks. *)
Receiving(a) == pc = "body" /\ a = This

CancelBody(a) ==
    /\ Receiving(a)
    /\ cancel
    /\ Pause
    /\ UNCHANGED <<source, manifest, final, part, corpora, receipt, forgot,
                   counters>>

HasMore(a) == Len(part[a]) < Size[reply.version]

Chunk(a) ==
    /\ Receiving(a)
    /\ ~cancel
    /\ HasMore(a)
    /\ IF Len(part[a]) + 1 > MaxSize[a]
       THEN Break /\ UNCHANGED part
       ELSE /\ part' = [part EXCEPT ![a] = Append(@, reply.version)]
            /\ IF (Len(part[a]) + 1 - reply.from) % SaveEvery = 0
               THEN /\ rows' = [rows EXCEPT ![a].done = FALSE]
                    /\ Save("downloading", rows')
               ELSE UNCHANGED <<rows, saved>>
            /\ UNCHANGED <<pc, at, reply, cancel>>
    /\ UNCHANGED <<source, manifest, final, corpora, receipt, forgot, counters>>

(* An empty read ends the loop: the reply is exhausted, or the connection  *)
(* ended early, which http.client does not tell apart.                     *)
EndOfBody(a) ==
    /\ Receiving(a)
    /\ ~cancel
    /\ \/ ~HasMore(a) /\ UNCHANGED faults
       \/ HasMore(a) /\ faults < MaxFaults /\ faults' = faults + 1
    /\ pc' = "check"
    /\ UNCHANGED <<source, disk, at, rows, reply, cancel, forgot, changes,
                   cancels, crashes>>

\* Mutant of Accepted: the size is compared, the digest is not.
AcceptedBySize(a) == a \in Pinned => Len(part[a]) = Size[manifest[a]]

(* The size and the digest the manifest pins are compared, then the .part  *)
(* file takes the file's place.                                            *)
Accepted(a) == a \in Pinned => part[a] = Whole(manifest[a])

Promote(a) ==
    /\ pc = "check" /\ a = This
    /\ IF Accepted(a)
       THEN /\ final' = [final EXCEPT ![a] = part[a]]
            /\ part' = [part EXCEPT ![a] = <<>>]
            /\ pc' = "record"
            /\ UNCHANGED <<saved, at, rows, reply, cancel>>
       ELSE Break /\ UNCHANGED <<final, part>>
    /\ UNCHANGED <<source, manifest, corpora, receipt, forgot, counters>>

(* The row of a promoted file, and the state with it, are saved. *)
Record(a) ==
    /\ pc = "record" /\ a = This
    /\ rows' = RowsToSave
    /\ Save("downloading", rows')
    /\ at' = at + 1
    /\ pc' = "next"
    /\ reply' = NoReply
    /\ UNCHANGED <<source, manifest, final, part, corpora, receipt, cancel,
                   forgot, counters>>

-----------------------------------------------------------------------------
(* All files are there: the corpus is built from them. *)
BeginBuild ==
    /\ pc = "next" /\ at > Len(Order)
    /\ Save("building", rows)
    /\ pc' = "build"
    /\ UNCHANGED <<source, manifest, final, part, corpora, receipt, at, rows,
                   reply, cancel, forgot, counters>>

(* build_starter_corpus reads whole files only: a gzip file or a JSON text *)
(* that is cut short, or is put together from two, is an error.            *)
Readable(c) == \E v \in Versions : c = Whole(v)

Build ==
    /\ pc = "build"
    /\ IF cancel THEN Pause
       ELSE IF \A a \in Assets : Readable(final[a])
            THEN pc' = "persist" /\ UNCHANGED <<saved, at, rows, reply, cancel>>
            ELSE Break
    /\ UNCHANGED <<source, manifest, final, part, corpora, receipt, forgot,
                   counters>>

(* The corpus is named by its content. *)
Persist ==
    /\ pc = "persist"
    /\ corpora' = corpora \cup {final}
    /\ pc' = "receipt"
    /\ UNCHANGED <<source, manifest, final, part, saved, receipt, at, rows,
                   reply, cancel, forgot, counters>>

WriteReceipt ==
    /\ pc = "receipt"
    /\ receipt' = [sources |-> [a \in Assets |-> rows[a].sha], corpus |-> final]
    /\ pc' = "finish"
    /\ UNCHANGED <<source, manifest, final, part, saved, corpora, at, rows,
                   reply, cancel, forgot, counters>>

Finish ==
    /\ pc = "finish"
    /\ End("ready")
    /\ UNCHANGED <<source, manifest, final, part, corpora, receipt, forgot,
                   counters>>

-----------------------------------------------------------------------------
(* A call raises: the network, a read, a write. *)
Raise ==
    /\ pc # "idle"
    /\ faults < MaxFaults /\ faults' = faults + 1
    /\ Break
    /\ UNCHANGED <<source, manifest, final, part, corpora, receipt, forgot,
                   changes, cancels, crashes>>

(* The user cancels the job. *)
Cancel ==
    /\ pc # "idle" /\ ~cancel
    /\ cancels < MaxCancels /\ cancels' = cancels + 1
    /\ cancel' = TRUE
    /\ UNCHANGED <<source, disk, pc, at, rows, reply, forgot, changes, faults,
                   crashes>>

(* The process dies: only the files stay. *)
LostTag(a) == HasState /\ saved # None /\ rows[a].tag # saved.rows[a].tag

Crash ==
    /\ pc # "idle"
    /\ crashes < MaxCrashes /\ crashes' = crashes + 1
    /\ forgot' = [a \in Assets |-> forgot[a] \/ LostTag(a)]
    /\ pc' = "idle" /\ at' = 1 /\ rows' = InitialRows /\ reply' = NoReply
    /\ cancel' = FALSE
    /\ UNCHANGED <<source, disk, changes, faults, cancels>>

(* A server publishes another version of a file. *)
SourceChanges(a) ==
    /\ changes < MaxChanges /\ changes' = changes + 1
    /\ \E v \in Versions \ {source[a]} : source' = [source EXCEPT ![a] = v]
    /\ UNCHANGED <<disk, memory, forgot, faults, cancels, crashes>>

Download(a) ==
    \/ UseFinal(a) \/ ReusePinned(a) \/ LookAtPart(a) \/ Request(a)
    \/ CancelBody(a) \/ Chunk(a) \/ EndOfBody(a) \/ Promote(a) \/ Record(a)

Step ==
    \/ Resolve \/ Begin \/ CancelNext
    \/ \E a \in Assets : Download(a)
    \/ BeginBuild \/ Build \/ Persist \/ WriteReceipt \/ Finish

Next ==
    \/ Start \/ Step
    \/ Raise \/ Cancel \/ Crash
    \/ \E a \in Assets : SourceChanges(a)

Spec == Init /\ [][Next]_vars

(* The installer's thread runs on, and the user installs again. *)
FairSpec == Spec /\ WF_vars(Step) /\ WF_vars(Start)

-----------------------------------------------------------------------------
(* Every file that took its place under downloads/ is exactly what the     *)
(* manifest pinned, whatever was cut short, resumed, mixed up or reused on *)
(* the way (lines 537-545, 581-590, 596-625).                              *)
PinnedIsExact ==
    \A a \in Pinned : final[a] # None => final[a] = Whole(manifest[a])

(* "n of m source files verified": a file that state.json calls complete   *)
(* is there, with the digest recorded for it, after any crash: the row is  *)
(* saved after the file took its place, and files do not go again.         *)
VerifiedIsThere ==
    saved # None =>
        \A a \in Assets : saved.rows[a].done =>
            final[a] # None /\ final[a] = saved.rows[a].sha

(* A receipt names the digests of the very files its corpus was built      *)
(* from, all of them, and its corpus was stored before it.                 *)
ReceiptNamesItsSources ==
    receipt # None =>
        /\ receipt.corpus \in corpora
        /\ receipt.sources = receipt.corpus
        /\ \A a \in Pinned : receipt.corpus[a] = Whole(manifest[a])

(* If-Range does its work: a .part file mixes two versions of its file     *)
(* only if its tag was lost, because the server sent none or the process   *)
(* died before it was saved (lines 551-554, 576, 580-583).                 *)
SplicesNeedALostTag ==
    \A a \in Assets : Mixed(part[a]) => forgot[a]

(* Retries make progress: if the servers end up with the pinned versions   *)
(* and no tag is lost, then every file is downloaded in the end, whatever  *)
(* the interrupted attempts left in the .part files, files that are longer *)
(* than expected included.                                                 *)
Settled ==
    /\ manifest # None
    /\ \A a \in Pinned : source[a] = manifest[a]
    /\ \A a \in Assets : Size[source[a]] <= MaxSize[a]

RetriesComplete ==
    (<>[]Settled /\ []~(\E a \in Assets : forgot[a]))
        => <>(\A a \in Assets : final[a] # None)

(* The inductive invariant.  What a row calls done is there; the rows of   *)
(* the files passed in this attempt are done; the tag of a row is that of  *)
(* every block of the .part file, unless it was lost.                      *)
TypeOK ==
    /\ source \in [Assets -> Versions]
    /\ manifest # None => manifest \in [Pinned -> Versions]
    /\ final \in [Assets -> Content \cup {None}]
    /\ part \in [Assets -> Content]
    /\ saved # None => saved \in State
    /\ receipt # None => receipt \in Receipt
    /\ pc \in {"idle", "manifest", "begin", "next", "request", "body", "check",
               "record", "build", "persist", "receipt", "finish"}
    /\ at \in 1..(Len(Order) + 1)
    /\ rows \in [Assets -> Row]
    /\ reply \in [version : Versions \cup {None}, from : Nat]
    /\ cancel \in BOOLEAN
    /\ forgot \in [Assets -> BOOLEAN]

Downloading == pc \in {"request", "body", "check", "record"}

PositionOK ==
    /\ Downloading => at <= Len(Order)
    /\ pc \in {"request", "body", "check"} => final[This] = None
    /\ pc = "record" => final[This] # None
    /\ pc \in {"build", "persist", "receipt", "finish"} => at = Len(Order) + 1
    /\ pc = "receipt" => final \in corpora

ManifestOK ==
    /\ manifest = None => pc \in {"idle", "manifest"} /\ receipt = None
    /\ manifest = None => \A a \in Pinned : final[a] = None
    /\ manifest # None => \A a \in Pinned : Size[manifest[a]] <= MaxSize[a]

LimitsOK ==
    \A a \in Assets :
        /\ Len(part[a]) <= MaxSize[a]
        /\ final[a] # None => Len(final[a]) <= MaxSize[a]

IsThere(row, a) == row.done => final[a] # None /\ row.sha = final[a]

RowsOK ==
    /\ \A a \in Assets : IsThere(rows[a], a)
    /\ HasState => saved # None
    /\ HasState => \A a \in Assets : saved.rows[a].done => rows[a].done
    /\ HasState => \A i \in 1..(at - 1) : rows[Order[i]].done

(* The tag that the next attempt to resume a file would send. *)
CurrentTag(a) ==
    IF HasState THEN rows[a].tag
    ELSE IF saved = None THEN None ELSE saved.rows[a].tag

TagsOK ==
    /\ \A a \in Assets : forgot[a] \/
          /\ a \notin Tagged => CurrentTag(a) = None
          /\ ~Mixed(part[a])
          /\ CurrentTag(a) # None =>
                \A i \in 1..Len(part[a]) : part[a][i] = CurrentTag(a)
    /\ pc = "body" =>
          /\ reply.version \in Versions
          /\ forgot[This] \/
                /\ \A i \in 1..Len(part[This]) : part[This][i] = reply.version
                /\ This \in Tagged => rows[This].tag = reply.version

IInv ==
    /\ TypeOK
    /\ PositionOK
    /\ ManifestOK
    /\ LimitsOK
    /\ RowsOK
    /\ TagsOK
    /\ PinnedIsExact
    /\ VerifiedIsThere
    /\ ReceiptNamesItsSources

=============================================================================
