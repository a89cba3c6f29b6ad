---------------------------- MODULE KelfBinding ----------------------------
(***************************************************************************)
(* The KELF files of an install: kelf_cache.c keeps the bytes of the last  *)
(* one read, the preflight (app_main.c) binds every distinct source to the *)
(* card in the port and keeps the result, and the transaction, which reads *)
(* the stick again, takes the bound bytes whose raw bytes are the same.    *)
(***************************************************************************)
EXTENDS SaveMedia

CONSTANTS Kelfs,         \* KELF sources of the package, in plan order
          Targets,       \* destinations of a plan: sequence of sources
          FirstPackages, \* what the stick holds at first
          Raws,          \* contents a source may have
          RawSize,       \* their sizes
          MaxRewrites    \* times the files of the stick are replaced

ASSUME TargetsAssumption == \A i \in DOMAIN Targets : Targets[i] \in ToSet(Kelfs)
ASSUME PackagesAssumption ==
    /\ FirstPackages \subseteq [ToSet(Kelfs) -> Raws]
    /\ "none" \notin ToSet(Kelfs)
    /\ Kelfs \in Seq(ToSet(Kelfs)) /\ 1 \in DOMAIN Kelfs

VARIABLES package,     \* the sources on the stick
          rewrites,
          known,       \* VerifiedPackageRoot is set
          sizes,       \* the sizes the package was found with
          cache,       \* CachedPath, CachedData
          pre,         \* PreboundKelfs
          kpc,         \* where the install is: step and index
          wrote        \* destinations written by this install

foundVars == <<package, rewrites, known, sizes>>
kelfVars == <<foundVars, cache, pre, kpc, wrote>>

NoCache == [source |-> "none", raw |-> "none"]
KelfAt(step, i) == op = "install" /\ kpc = <<step, i>>
Idle == <<"idle", 0>>
Sizes == [s \in ToSet(Kelfs) |-> RawSize[package[s]]]
KelfInit ==
    /\ package \in FirstPackages /\ rewrites = 0 /\ known = FALSE
    /\ sizes = Sizes
    /\ cache = NoCache /\ pre = <<>> /\ kpc = Idle /\ wrote = <<>>

-----------------------------------------------------------------------------
(* The stick is exchanged or rewritten: at the menu or between the reads   *)
(* of an install; before anything was read it is another first package.    *)
RewritePackage ==
    /\ op \in {"menu", "install"} /\ (known \/ cache # NoCache)
    /\ rewrites < MaxRewrites /\ rewrites' = rewrites + 1
    /\ package' \in [ToSet(Kelfs) -> Raws] \ {package}
    /\ UNCHANGED <<mediaVars, known, sizes, cache, pre, kpc, wrote>>

(* MciKelfCacheClone(): a hit on path and size reads nothing.              *)
Hit(s) == cache.source = s /\ RawSize[cache.raw] = sizes[s]
Stageable(s) == Hit(s) \/ RawSize[package[s]] = sizes[s]
Cloned(s) == IF Hit(s) THEN cache ELSE [source |-> s, raw |-> package[s]]

(* The MagicGate test reads FMCB.XLF, or takes the cached bytes unasked.   *)
ProbeMagicGate ==
    /\ op = "menu"
    /\ cache' = IF cache = NoCache THEN [source |-> Kelfs[1], raw |-> package[Kelfs[1]]]
                ELSE cache
    /\ UNCHANGED <<mediaVars, foundVars, pre, kpc, wrote>>

(* RevalidateInstallerPreconditions(): a package root that passed before   *)
(* is rechecked by name and size; a search that finds one drops the cache. *)
StartInstall ==
    /\ op = "menu" /\ op' = "install"
    /\ known' = TRUE /\ sizes' = Sizes /\ cache' = IF known THEN cache ELSE NoCache
    /\ pre' = <<>> /\ wrote' = <<>> /\ kpc' = <<"preflight", 1>>
    /\ UNCHANGED <<card, inserted, faults, job, package, rewrites>>

EndInstall(how) ==
    kpc' = <<how, 0>> /\ UNCHANGED <<op, card, inserted, job, foundVars>>
Reject == EndInstall("rejected") /\ pre' = <<>> /\ UNCHANGED <<cache, wrote>>

(* PreflightSelectedKelfSources(), one source: stage, bind, keep.          *)
Bound(raw) == [raw |-> raw, card |-> inserted]
Kept(s, raw) == [source |-> s, raw |-> raw, bound |-> Bound(raw)]
PreflightSource ==
    \E i \in DOMAIN Kelfs :
       /\ KelfAt("preflight", i)
       /\ \/ /\ Reads /\ Stageable(Kelfs[i])
             /\ cache' = Cloned(Kelfs[i])
             /\ pre' = Append(pre, Kept(Kelfs[i], cache'.raw))
             /\ kpc' = <<"preflight", i + 1>>
             /\ UNCHANGED <<op, inserted, job, foundVars, wrote>>
          \/ ReadFails /\ Reject
          \/ ~Stageable(Kelfs[i]) /\ Reject /\ UNCHANGED faults
PreflightDone ==
    /\ KelfAt("preflight", Len(Kelfs) + 1) /\ kpc' = <<"write", 1>>
    /\ UNCHANGED <<mediaVars, foundVars, cache, pre, wrote>>

(* ApplyPreboundKelfForInstaller(): the first entry of the same size and   *)
(* bytes; none refuses the transaction, which rolls back.                  *)
MatchesBySize(s) == {k \in DOMAIN pre : RawSize[pre[k].raw] = RawSize[package[s]]}
Matches(s) == {k \in DOMAIN pre : pre[k].raw = package[s]}
Spent(k) == SubSeq(pre, 1, k - 1) \o SubSeq(pre, k + 1, Len(pre))
KeptAfter(k) == pre
FirstOf(k, S) == k \in S /\ \A l \in S : k <= l
WriteBound ==
    \E i \in DOMAIN Targets :
       /\ KelfAt("write", i)
       /\ \/ /\ Reads /\ Matches(Targets[i]) = {}
             /\ EndInstall("missed") /\ UNCHANGED <<pre, cache, wrote>>
          \/ /\ Reads /\ UNCHANGED <<op, inserted, job, foundVars, cache>>
             /\ \E k \in DOMAIN pre :
                   /\ FirstOf(k, Matches(Targets[i]))
                   /\ wrote' = Append(wrote, [want |-> Bound(package[Targets[i]]),
                                              bound |-> pre[k].bound])
                   /\ pre' = KeptAfter(k)
             /\ kpc' = <<"write", i + 1>>
          \/ ReadFails /\ EndInstall("failed") /\ pre' = <<>> /\ UNCHANGED <<cache, wrote>>
WriteDone ==
    /\ KelfAt("write", Len(Targets) + 1)
    /\ EndInstall("installed") /\ pre' = <<>> /\ UNCHANGED <<faults, cache, wrote>>

(* ClearPreboundKelfCache() on the way back to the dashboard.              *)
LeaveInstall ==
    /\ op = "install" /\ kpc[2] = 0 /\ op' = "menu"
    /\ kpc' = Idle /\ pre' = <<>> /\ wrote' = <<>>
    /\ UNCHANGED <<card, inserted, faults, job, foundVars, cache>>

KelfCut ==
    /\ UNCHANGED <<package, rewrites, sizes>>
    /\ known' = FALSE /\ cache' = NoCache /\ pre' = <<>> /\ kpc' = Idle
    /\ wrote' = <<>>
KelfNext ==
    \/ ProbeMagicGate \/ StartInstall \/ PreflightSource \/ PreflightDone
    \/ WriteBound \/ WriteDone \/ LeaveInstall \/ RewritePackage
=============================================================================
