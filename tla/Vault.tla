-------------------------------- MODULE Vault --------------------------------
(* What the vault leaves on disk.  Exports write a bundle into a directory,  *)
(* file by file, and imports read it back; a backup downloads a bundle,      *)
(* stages a capsule of checked files around it and seals it into one file,   *)
(* which a restore opens, verifies and sends to a host; a capsule without    *)
(* private text is written to a directory of its own.  Any of them may fail  *)
(* or be killed between two steps.  Memory models the table on either side.  *)
EXTENDS Naturals, Sequences, FiniteSets, SequencesExt

CONSTANTS
  Procs,       \* requests and commands that may run at a time
  Nodes,       \* messages of an exported conversation, numbered by their time
  MaxStarts    \* bound: requests and commands

ASSUME VaultAssumption ==
  MaxStarts \in Nat /\ IsFiniteSet(Nodes) /\ Nodes \subseteq Nat \ {0}

VARIABLES
  bundle,     \* the directory of exports: its files
  public,     \* the directory of the public capsule: its files
  backup,     \* the encrypted file
  op,         \* what each of Procs is in the middle of
  plain,      \* temporary directories with private text: <<process, whose>>
  chain,      \* the conversation that has just been read
  made,       \* bundles built from live memory so far, each a generation
  last,       \* history: the generation an undisturbed export left, or 0
  exports,    \* history: exports that have written here
  killed      \* history: a process has been killed

vaultVars == <<bundle, public, backup, op, plain, chain, made, last, exports, killed>>

-----------------------------------------------------------------------------
(* Files                                                                   *)

\* A file's generations, whether it is cut or garbled somewhere, which parts a
\* capsule's manifest names, and the digests, if it is the file of those.
Content(gens, cut, has, sums) == [of |-> gens, cut |-> cut, has |-> has, sums |-> sums]

Whole(g) == Content({g}, FALSE, {}, <<>>)
Lost == Content({}, TRUE, {}, <<>>)

\* Fault: the manifest is written where the reader looks for it.
WriteOrderAsRead == <<"manifest", "identity", "directives", "memories", "episodes", "state">>

\* Fault: a state with nothing in it is not written.
WriteOrderNoState == <<"identity", "directives", "memories", "episodes", "manifest">>

WriteOrder == <<"identity", "state", "directives", "memories", "episodes", "manifest">>
ReadOrder == <<"manifest", "identity", "directives", "memories", "episodes", "state">>
BundleFiles == Range(ReadOrder)
Lists == {"directives", "memories", "episodes"}

IsWhole(b, g) == DOMAIN b = BundleFiles /\ \A f \in BundleFiles : b[f] = Whole(g)

Put(d, f, c) == [x \in DOMAIN d \cup {f} |-> IF x = f THEN c ELSE d[x]]

\* The ten texts of a capsule are written alike: two stand for them.
CapsuleOrder == <<"constitution", "bootstrap", "manifest", "checksums">>

ChecksumsFor(c) == [f \in DOMAIN c \ {"checksums"} |-> c[f]]

\* What is written for file f of a capsule of generation g into c.
CapsuleContent(c, f, g) ==
  IF f = "checksums" THEN [Whole(g) EXCEPT !.sums = ChecksumsFor(c)] ELSE Whole(g)

\* All of them, in a directory that nobody else looks at.
WriteCapsule(g) ==
  LET texts == [f \in Range(CapsuleOrder) \ {"checksums"} |-> Whole(g)]
  IN  Put(texts, "checksums", CapsuleContent(texts, "checksums", g))

VaultNames ==
  [manifest |-> "vault_manifest", identity |-> "vault_identity", state |-> "vault_state",
   directives |-> "vault_directives", memories |-> "vault_memories", episodes |-> "vault_episodes"]

VaultFile(f) == VaultNames[f]

\* The digests of fs are taken anew.
Resum(c, fs) ==
  [c EXCEPT !["checksums"].sums =
     [f \in DOMAIN @ \cup fs |-> IF f \in fs THEN c[f] ELSE @[f]]]

\* The bundle beside the texts, named in the manifest.
AttachVaultBundle(c, b) ==
  LET embedded == {VaultFile(f) : f \in DOMAIN b}
      with == [x \in DOMAIN c \cup embedded |->
                 IF x \in DOMAIN c THEN c[x]
                 ELSE b[CHOOSE f \in DOMAIN b : VaultFile(f) = x]]
  IN  Resum([with EXCEPT !["manifest"].has = @ \cup {"vault"}], embedded \cup {"manifest"})

\* Fault: the manifest's digest stays as it was.
AugmentKeepsSum(c, g) ==
  Resum([Put(c, "turns", Whole(g)) EXCEPT !["manifest"].has = @ \cup {"turns"}], {"turns"})

AugmentPrivateCapsule(c, g) ==
  Resum([Put(c, "turns", Whole(g)) EXCEPT !["manifest"].has = @ \cup {"turns"}],
        {"turns", "manifest"})

\* Fault: the hashed files need only be there.
VerifyCapsuleThere(c) ==
  /\ Range(CapsuleOrder) \subseteq DOMAIN c
  /\ ~ c["manifest"].cut /\ ~ c["checksums"].cut
  /\ DOMAIN c["checksums"].sums \subseteq DOMAIN c

\* Required files are there, the readable ones readable, every digest right.
VerifyCapsule(c) ==
  /\ Range(CapsuleOrder) \subseteq DOMAIN c
  /\ ~ c["manifest"].cut /\ ~ c["checksums"].cut
  /\ \A f \in DOMAIN c["checksums"].sums : f \in DOMAIN c /\ c[f] = c["checksums"].sums[f]

\* A list loses the lines that do not parse, and may be missing, as may state.
Readable(d, f) ==
  CASE f \in Lists -> TRUE
    [] f = "state" -> f \in DOMAIN d => ~ d[f].cut
    [] OTHER       -> f \in DOMAIN d /\ ~ d[f].cut

\* What is read of a bundle is written into the archive anew, empty where it was
\* missing.
WriteVaultArchive(b) == [f \in BundleFiles |-> IF f \in DOMAIN b THEN b[f] ELSE Lost]

\* Unpacked, if it reads as a bundle.
ExtractsVaultArchive(b) == \A f \in BundleFiles : Readable(b, f)

Embedded(c) == [f \in {x \in BundleFiles : VaultFile(x) \in DOMAIN c} |-> c[VaultFile(f)]]

-----------------------------------------------------------------------------
(* The branch of a conversation that is taken                              *)

NoParent == 0
NoCurrent == 0

\* silent: messages without a text, of whatever shape.
Trees == [parent : [Nodes -> Nodes \cup {NoParent}], current : Nodes \cup {NoCurrent},
          silent : SUBSET Nodes]

\* One turn of the loop: unless there is no such message, or it was seen before, it
\* is noted, if it says something, and then the one that it answers is looked at.
Up(t, w) ==
  IF w.at = NoParent \/ w.at \in w.seen THEN w
  ELSE [at   |-> t.parent[w.at],
        seen |-> w.seen \cup {w.at},
        said |-> IF w.at \in t.silent THEN w.said ELSE Append(w.said, w.at)]

\* Fault: the walk starts at the parent.
WalkFromParent(t) ==
  LET walk[n \in Nat] ==
        IF n = 0 THEN [at |-> t.parent[t.current], seen |-> {}, said |-> <<>>]
                 ELSE Up(t, walk[n - 1])
  IN  walk

\* From the current message to the root, or to where the parents go round.
Walk(t) ==
  LET walk[n \in Nat] ==
        IF n = 0 THEN [at |-> t.current, seen |-> {}, said |-> <<>>]
                 ELSE Up(t, walk[n - 1])
  IN  walk

\* All messages when the export does not say which one is current.
Turns(t) ==
  IF t.current = NoCurrent THEN SetToSortSeq(Nodes \ t.silent, <)
  ELSE Reverse(Walk(t)[Cardinality(Nodes)].said)

NoChain == [tree |-> <<>>, turns |-> <<>>]

-----------------------------------------------------------------------------

Idle == [kind |-> "none", at |-> "idle", gen |-> 0, todo |-> <<>>, got |-> <<>>,
         turns |-> FALSE, alone |-> TRUE, expect |-> 0]

Kinds == {"none", "export", "import", "publish", "backup", "restore", "check"}

VaultTypeOK ==
  /\ DOMAIN bundle \subseteq BundleFiles
  /\ DOMAIN public \subseteq Range(CapsuleOrder)
  /\ \A f \in DOMAIN bundle : bundle[f].of \subseteq 0..made
  /\ \A f \in DOMAIN public : public[f].of \subseteq 0..made
  /\ backup.sealed \in BOOLEAN
  /\ \A p \in Procs :
       /\ op[p].kind \in Kinds /\ op[p].gen \in 0..made
       /\ (op[p].kind = "none") = (op[p] = Idle)
       /\ op[p].turns \in BOOLEAN /\ op[p].alone \in BOOLEAN /\ op[p].expect \in 0..made
  /\ plain \subseteq Procs \X {"client", "server"}
  /\ last \in 0..made /\ exports \in 0..made /\ killed \in BOOLEAN

\* The directories are empty, or hold what an earlier run has left.
VaultInit ==
  /\ bundle = <<>> /\ public = <<>>
  /\ backup = [capsule |-> <<>>, sealed |-> FALSE]
  /\ op = [p \in Procs |-> Idle]
  /\ plain = {} /\ chain = NoChain
  /\ made = 0 /\ last = 0 /\ exports = 0 /\ killed = FALSE

Does(p, o) == op' = [op EXCEPT ![p] = o] /\ chain' = NoChain

Starts(p) == op[p].kind = "none" /\ made < MaxStarts

Ends(p) == Does(p, Idle)

Touches == <<bundle, public, backup>>
History == <<last, exports, killed>>

-----------------------------------------------------------------------------
(* Writing a bundle or a public capsule into its directory                 *)

Exporting == {p \in Procs : op[p].kind = "export"}

\* Whoever is writing or reading is no longer alone.
Export(p) ==
  /\ Starts(p)
  /\ made' = made + 1 /\ exports' = exports + 1 /\ last' = 0
  /\ op' = [q \in Procs |->
              CASE q = p -> [Idle EXCEPT !.kind = "export", !.at = "open", !.gen = made',
                                         !.todo = WriteOrder, !.alone = Exporting = {}]
                [] q \in Exporting -> [op[q] EXCEPT !.alone = FALSE]
                [] op[q].kind = "import" -> [op[q] EXCEPT !.expect = 0]
                [] OTHER -> op[q]]
  /\ chain' = NoChain
  /\ UNCHANGED <<Touches, plain, killed>>

\* Bound: one at a time, since only programs of the operator's own call it.
Publish(p) ==
  /\ Starts(p) /\ \A q \in Procs : op[q].kind # "publish"
  /\ made' = made + 1
  /\ Does(p, [Idle EXCEPT !.kind = "publish", !.at = "open", !.gen = made', !.todo = CapsuleOrder])
  /\ UNCHANGED <<Touches, plain, History>>

Directory(p) == IF op[p].kind = "export" THEN bundle ELSE public

Holds(p, d) ==
  IF op[p].kind = "export" THEN bundle' = d /\ UNCHANGED public
                           ELSE public' = d /\ UNCHANGED bundle

\* Truncated; some lines of a list may be there before it is closed.
Open(p) ==
  LET f == Head(op[p].todo)
  IN  /\ op[p].at = "open"
      /\ \E c \in {Lost} \cup (IF f \in Lists THEN {[Lost EXCEPT !.of = {op[p].gen}]} ELSE {}) :
           Holds(p, Put(Directory(p), f, c))
      /\ Does(p, [op[p] EXCEPT !.at = "close"])
      /\ UNCHANGED <<backup, plain, made, History>>

\* Another's bytes may stay where two have written into one file.
Outcomes(p, f) ==
  LET o == op[p]
      was == Directory(p)[f]
      is == IF o.kind = "export" THEN Whole(o.gen) ELSE CapsuleContent(public, f, o.gen)
  IN  {is} \cup (IF ~ o.alone /\ (f \in Lists \/ ~ was.of \subseteq {o.gen})
                   THEN {Content(was.of \cup {o.gen}, TRUE, {}, <<>>)} ELSE {})

Close(p) ==
  LET f == Head(op[p].todo)
      rest == Tail(op[p].todo)
  IN  /\ op[p].at = "close"
      /\ \E c \in Outcomes(p, f) : Holds(p, Put(Directory(p), f, c))
      /\ IF rest # <<>> THEN Does(p, [op[p] EXCEPT !.at = "open", !.todo = rest]) /\ UNCHANGED last
           ELSE /\ Ends(p)
                /\ last' = IF op[p].kind = "export" /\ op[p].alone THEN op[p].gen ELSE last
      /\ UNCHANGED <<backup, plain, made, exports, killed>>

-----------------------------------------------------------------------------
(* Reading a bundle                                                        *)

Import(p) ==
  /\ op[p].kind = "none"
  /\ exports > 0
  /\ Does(p, [Idle EXCEPT !.kind = "import", !.at = "read", !.todo = ReadOrder, !.expect = last])
  /\ UNCHANGED <<Touches, plain, made, History>>

Read(p) ==
  LET f == Head(op[p].todo)
      rest == Tail(op[p].todo)
  IN  /\ op[p].at = "read" /\ op[p].kind = "import"
      /\ IF ~ Readable(bundle, f) THEN Ends(p)
           ELSE Does(p, [op[p] EXCEPT !.got = IF f \in DOMAIN bundle THEN Put(@, f, bundle[f]) ELSE @,
                                      !.todo = rest,
                                      !.at = IF rest = <<>> THEN "merge" ELSE @])
      /\ UNCHANGED <<Touches, plain, made, History>>

-----------------------------------------------------------------------------
(* Backup                                                                  *)

\* Bound: conversations are told apart when nothing else has happened yet.
Backup(p) ==
  /\ Starts(p)
  /\ \E turns \in BOOLEAN :
       Does(p, [Idle EXCEPT !.kind = "backup", !.at = IF turns THEN "ingest" ELSE "fetch",
                            !.turns = turns])
  /\ UNCHANGED <<Touches, plain, made, History>>

IngestConversationExport(p) ==
  /\ op[p].at = "ingest"
  /\ op' = [op EXCEPT ![p].at = "fetch"]
  /\ IF made = 0 /\ \A q \in Procs \ {p} : op[q] = Idle
       THEN \E t \in Trees : chain' = [tree |-> t, turns |-> Turns(t)]
       ELSE chain' = NoChain
  /\ UNCHANGED <<Touches, plain, made, History>>

\* The server builds the bundle and its archive in a directory of its own.
ExportVaultArchive(p) ==
  /\ op[p].at = "fetch" /\ made < MaxStarts
  /\ made' = made + 1
  /\ plain' = plain \cup {<<p, "client">>, <<p, "server">>}
  /\ Does(p, [op[p] EXCEPT !.at = "sent", !.gen = made'])
  /\ UNCHANGED <<Touches, History>>

\* Downloaded, unpacked and read; the server removes its directory.
Downloaded(p) ==
  /\ op[p].at = "sent"
  /\ plain' = plain \ {<<p, "server">>}
  /\ Does(p, [op[p] EXCEPT !.at = "stage",
                           !.got = WriteVaultArchive([f \in BundleFiles |-> Whole(op[p].gen)])])
  /\ UNCHANGED <<Touches, made, History>>

Stage(p) ==
  LET o == op[p]
      c == AttachVaultBundle(WriteCapsule(o.gen), o.got)
  IN  /\ o.at = "stage"
      /\ Does(p, [o EXCEPT !.at = "seal",
                           !.got = IF o.turns THEN AugmentPrivateCapsule(c, o.gen) ELSE c])
      /\ UNCHANGED <<Touches, plain, made, History>>

\* The file is truncated, whatever it held, and then written.
EncryptFile(p) ==
  /\ op[p].at = "seal"
  /\ backup' = [capsule |-> op[p].got, sealed |-> FALSE]
  /\ op' = [q \in Procs |->
              CASE q = p -> [op[p] EXCEPT !.at = "tag",
                                          !.alone = \A r \in Procs : op[r].at # "tag"]
                [] op[q].at = "tag" -> [op[q] EXCEPT !.alone = FALSE]
                [] OTHER -> op[q]]
  /\ chain' = NoChain
  /\ UNCHANGED <<bundle, public, plain, made, History>>

\* The tag is the last to be written, and the temporary directory removed.
\* Two that have written into one file leave nothing that authenticates, unless
\* the later one has covered all of it.
Tagged(p) ==
  /\ op[p].at = "tag"
  /\ \E sealed \in IF op[p].alone /\ backup.capsule = op[p].got THEN {TRUE} ELSE BOOLEAN :
       backup' = [capsule |-> op[p].got, sealed |-> sealed]
  /\ plain' = plain \ {<<p, "client">>}
  /\ Ends(p)
  /\ UNCHANGED <<bundle, public, made, History>>

-----------------------------------------------------------------------------
(* Restore                                                                 *)

Restore(p) ==
  /\ op[p].kind = "none" /\ backup.capsule # <<>>
  /\ Does(p, [Idle EXCEPT !.kind = "restore", !.at = "decrypt"])
  /\ UNCHANGED <<Touches, plain, made, History>>

VerifyEncrypted(p) ==
  /\ op[p].kind = "none" /\ backup.capsule # <<>>
  /\ Does(p, [Idle EXCEPT !.kind = "check", !.at = "decrypt"])
  /\ UNCHANGED <<Touches, plain, made, History>>

\* Fault: what has been decrypted is used before the tag is looked at.
DecryptsAnything(p) ==
  /\ op[p].at = "decrypt"
  /\ plain' = plain \cup {<<p, "client">>}
  /\ \E fs \in IF backup.sealed THEN {DOMAIN backup.capsule}
                 ELSE {DOMAIN backup.capsule, DOMAIN backup.capsule \ {VaultFile("memories")}} :
       Does(p, [op[p] EXCEPT !.at = "upload",
                             !.got = WriteVaultArchive(Embedded([f \in fs |-> backup.capsule[f]]))])
  /\ UNCHANGED <<Touches, made, History>>

\* A file that is cut or mixed does not authenticate: Fails.
DecryptPrivateCapsule(p) ==
  /\ op[p].at = "decrypt" /\ backup.sealed
  /\ plain' = plain \cup {<<p, "client">>}
  /\ Does(p, [op[p] EXCEPT !.at = "verify", !.got = backup.capsule])
  /\ UNCHANGED <<Touches, made, History>>

\* Verified, which is all that verify-encrypted does; read, and packed for the host.
Verify(p) ==
  /\ op[p].at = "verify"
  /\ IF /\ VerifyCapsule(op[p].got) /\ Embedded(op[p].got) # <<>>
        /\ ExtractsVaultArchive(Embedded(op[p].got))
        /\ op[p].kind = "restore"
       THEN /\ Does(p, [op[p] EXCEPT !.at = "upload", !.got = WriteVaultArchive(Embedded(@))])
            /\ UNCHANGED plain
       ELSE Ends(p) /\ plain' = plain \ {<<p, "client">>}
  /\ UNCHANGED <<Touches, made, History>>

\* The host keeps the upload in a directory of its own, unpacks and reads it.
ImportVaultArchive(p) ==
  /\ op[p].at = "upload" /\ ExtractsVaultArchive(op[p].got)
  /\ plain' = plain \cup {<<p, "server">>}
  /\ Does(p, [op[p] EXCEPT !.at = "merge"])
  /\ UNCHANGED <<Touches, made, History>>

\* The command gives up waiting; the host goes on.
GivesUp(p) ==
  /\ op[p].at = "merge" /\ <<p, "client">> \in plain
  /\ plain' = plain \ {<<p, "client">>}
  /\ Does(p, op[p])
  /\ UNCHANGED <<Touches, made, History>>

\* Memory's import, or its dry run; whatever comes of it, the directories go.
Merges(p) ==
  /\ op[p].at = "merge"
  /\ plain' = plain \ ({p} \X {"client", "server"})
  /\ Ends(p)
  /\ UNCHANGED <<Touches, made, History>>

-----------------------------------------------------------------------------
(* Failures                                                                *)

\* Fault: the server removes its directory only when it has sent the archive.
FailsKeepingServer(p) ==
  /\ op[p].kind # "none"
  /\ plain' = plain \ {<<p, "client">>}
  /\ Ends(p)
  /\ UNCHANGED <<Touches, made, History>>

\* Any step may raise: refused, no space, no network, a wrong passphrase.
Fails(p) ==
  /\ op[p].kind # "none"
  /\ plain' = plain \ ({p} \X {"client", "server"})
  /\ Ends(p)
  /\ UNCHANGED <<Touches, made, History>>

Killed(p) ==
  /\ op[p].kind # "none"
  /\ killed' = TRUE
  /\ Ends(p)
  /\ UNCHANGED <<Touches, plain, made, last, exports>>

-----------------------------------------------------------------------------

Request(p) == Export(p) \/ Publish(p) \/ Import(p) \/ Backup(p) \/ Restore(p) \/ VerifyEncrypted(p)

Step(p) ==
  \/ Open(p) \/ Close(p) \/ Read(p)
  \/ IngestConversationExport(p) \/ ExportVaultArchive(p) \/ Downloaded(p) \/ Stage(p)
  \/ EncryptFile(p) \/ Tagged(p)
  \/ DecryptPrivateCapsule(p) \/ Verify(p) \/ ImportVaultArchive(p) \/ GivesUp(p) \/ Merges(p)

VaultNext == \E p \in Procs : Request(p) \/ Step(p) \/ Fails(p) \/ Killed(p)

VaultSpec == VaultInit /\ [][VaultNext]_vaultVars

-----------------------------------------------------------------------------
(* Properties                                                              *)

Imported(p) == op[p].kind = "import" /\ op[p].at = "merge"

\* An import that nobody writes under reads back exactly what the last export
\* wrote, over whatever was in the directory before.
ReadsBack ==
  \A p \in Procs : Imported(p) /\ op[p].expect # 0 => IsWhole(op[p].got, op[p].expect)

\* In a directory that has seen one export the manifest, written last, means
\* that the rest is complete: also for an import while it is being written, and
\* after the export has been killed.
FirstManifest == \A p \in Procs : Imported(p) /\ exports = 1 => \E g \in 1..made : IsWhole(op[p].got, g)

\* A sealed backup passes its own verification and holds one whole bundle,
\* through every file that is added and every manifest that is rewritten.
BackupVerifies ==
  backup.sealed =>
    /\ VerifyCapsule(backup.capsule)
    /\ DOMAIN backup.capsule \subseteq DOMAIN backup.capsule["checksums"].sums \cup {"checksums"}
    /\ \E g \in 1..made : IsWhole(Embedded(backup.capsule), g)

\* What a restore gives to a host is one whole bundle, whatever was killed,
\* failed or written at once while the backup was made.
RestoreIsWhole ==
  \A p \in Procs : op[p].kind = "restore" /\ op[p].at = "merge" =>
    \E g \in 1..made : IsWhole(op[p].got, g)

\* A public capsule that verifies is one capsule: a writer that stops between
\* any two files over an older capsule is found out.
VerifiedIsOneCapsule ==
  VerifyCapsule(public) =>
    \E g \in 1..made : \A f \in DOMAIN public : public[f].of = {g} /\ ~ public[f].cut

\* When every command has ended, in success or in failure, no private text is
\* left unencrypted, unless a process was killed.
PlaintextGoes == (\A p \in Procs : op[p] = Idle) /\ ~ killed => plain = {}

\* The messages that n answers, directly or not: whatever has the one it answers,
\* and with each message the one that answers, has them all.
Ancestors(t, n) ==
  LET Closed(S) == /\ t.parent[n] \in S \cup {NoParent}
                   /\ \A m \in S : t.parent[m] \in S \cup {NoParent}
  IN  {m \in Nodes : \A S \in SUBSET Nodes : Closed(S) => m \in S}

\* The turns of a conversation are the current message and those it answers,
\* directly or not, each after those it answers: no abandoned branch is mixed in,
\* if the export says which branch is not.
ActiveBranch ==
  chain # NoChain /\ chain.tree.current # NoCurrent =>
    LET t == chain.tree
        said == (Ancestors(t, t.current) \cup {t.current}) \ t.silent
    IN  /\ Range(chain.turns) = said /\ Len(chain.turns) = Cardinality(said)
        /\ \A i, j \in DOMAIN chain.turns :
             i < j => chain.turns[i] \in Ancestors(t, chain.turns[j])

-----------------------------------------------------------------------------
(* Together                                                                *)

\* What a directory gives back is one generation, and what must not stay does not.
DiskInv == VaultTypeOK /\ ReadsBack /\ FirstManifest /\ VerifiedIsOneCapsule /\ PlaintextGoes

\* What is sealed is verified, and what is restored is whole.
BackupHolds == BackupVerifies /\ RestoreIsWhole
=============================================================================
