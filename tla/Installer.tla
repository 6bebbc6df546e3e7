------------------------------ MODULE Installer ------------------------------
(***************************************************************************)
(* The Composer hook of php/src/Installer.php that downloads the native    *)
(* library, verifies it and extracts it beside a version marker.           *)
(*                                                                         *)
(* A composer run is a process of its own; the library and the marker are  *)
(* what stays on disk between runs.  A run takes one step per download and *)
(* per write, since a run can be killed, or its write can fail, between    *)
(* any two of them.  Bodies of archives are told apart by version and by   *)
(* whether they arrived as they were published.  Which URLs are answered   *)
(* with a redirect is a property of the host that publishes them, the same *)
(* at every attempt.                                                       *)
(***************************************************************************)
EXTENDS Naturals, Sequences

LOCAL INSTANCE SequencesExt

CONSTANTS
    Runs,         \* composer runs that may overlap
    Versions,     \* versions extra.c12n-core.version may name
    Nested,       \* versions whose archive holds the library in a directory
    MaxCrashes,   \* bound: runs that are killed
    MaxFailures   \* bound: downloads and writes that fail

ASSUME NestedAssumption == Nested \subseteq Versions
ASSUME BoundsAssumption == MaxCrashes \in Nat /\ MaxFailures \in Nat

VARIABLES
    redirects,  \* the URLs that the host redirects to another, for good
    lib,        \* runtime/lib/libc12n_core.*: NoLib, or its body and whether all of it is there
    marker,     \* runtime/lib/.version: None, a version, or Torn
    run,        \* Runs -> the state of that run
    crashes,
    failures
vars == <<redirects, lib, marker, run, crashes, failures>>

None == "none"
Torn == "torn"      \* a marker that was not written to its end

Bodies == [version : Versions, good : BOOLEAN]
Good(v) == [version |-> v, good |-> TRUE]
NoBody == [version |-> None, good |-> FALSE]
NoLib == [body |-> NoBody, whole |-> FALSE]

\* What a GET ends with: the status lines of every response it followed, oldest
\* first, none for a URL that is not of HTTP; or no response at all.
Urls == {"archive", "manifest"}
Unreachable == <<"unreachable">>
StatusLines(url) ==
    {Unreachable} \cup IF url \in redirects THEN {<<"3xx", "2xx">>, <<"3xx", "4xx">>}
                                           ELSE {<<>>, <<"2xx">>, <<"4xx">>}

-----------------------------------------------------------------------------
(* httpGet, parseStatus *)

\* The first status line of the headers is the status, also of a redirect that was followed.
ParsedStatus(lines) == IF lines = <<>> THEN None ELSE Head(lines)

HttpGetReturns(lines) ==
    lines # Unreachable /\ ParsedStatus(lines) \in {None, "2xx"}

\* A host that has the body and does not give it uses up one failure.
Failing(lines) == lines # <<>> /\ Last(lines) # "2xx"

-----------------------------------------------------------------------------
(* fetch and download *)

Idle == [pc |-> "idle", version |-> None, body |-> NoBody, outcome |-> None]

Init ==
    /\ redirects \in SUBSET Urls
    /\ lib = NoLib
    /\ marker = None
    /\ run = [r \in Runs |-> Idle]
    /\ crashes = 0
    /\ failures = 0

At(r, pc) == run[r].pc = pc

\* isInstalledAtVersion
IsInstalledAtVersion(v) == lib # NoLib /\ marker = v

Ended(r, outcome) == run' = [run EXCEPT ![r].pc = "idle", ![r].outcome = outcome]

\* A failure of fetch is a warning of download: the install goes on.
Warned(r) == Ended(r, "warned")

\* C12N_CORE_LIB_PATH is set.
SkipForEnv(r) ==
    /\ At(r, "idle")
    /\ run' = [run EXCEPT ![r] = [Idle EXCEPT !.outcome = "env"]]
    /\ UNCHANGED <<redirects, lib, marker, crashes, failures>>

\* A missing extra key or an unsupported host: fetch throws, download does not.
Misconfigured(r) ==
    /\ At(r, "idle")
    /\ run' = [run EXCEPT ![r] = [Idle EXCEPT !.outcome = "warned", !.version = "misconfigured"]]
    /\ UNCHANGED <<redirects, lib, marker, crashes, failures>>

Skip(r, v) ==
    /\ At(r, "idle")
    /\ IsInstalledAtVersion(v)
    /\ run' = [run EXCEPT ![r] = [Idle EXCEPT !.outcome = "skipped", !.version = v]]
    /\ UNCHANGED <<redirects, lib, marker, crashes, failures>>

Start(r, v) ==
    /\ At(r, "idle")
    /\ ~IsInstalledAtVersion(v)
    /\ run' = [run EXCEPT ![r] = [Idle EXCEPT !.pc = "tarball", !.version = v]]
    /\ UNCHANGED <<redirects, lib, marker, crashes, failures>>

Spend(bad) ==
    /\ bad => failures < MaxFailures
    /\ failures' = IF bad THEN failures + 1 ELSE failures

GetTarball(r) ==
    /\ At(r, "tarball")
    /\ \E lines \in StatusLines("archive"), good \in BOOLEAN :
        /\ Spend(Failing(lines) \/ ~good)
        /\ IF HttpGetReturns(lines)
           THEN LET body == [version |-> run[r].version, good |-> good]
                IN  run' = [run EXCEPT ![r].pc = "manifest", ![r].body = body]
           ELSE run' = [run EXCEPT ![r].pc = "idle", ![r].outcome = "warned"]
    /\ UNCHANGED <<redirects, lib, marker, crashes>>

\* Mutant: the hashes are not compared.
MatchesAny(body) == TRUE

\* hash_equals: the manifest's entry is the hash of the archive as published.
Matches(body) == body.good

\* The manifest, whose entry for the asset may be missing or unreadable, and the
\* comparison of the hashes.
GetManifest(r) ==
    /\ At(r, "manifest")
    /\ \E lines \in StatusLines("manifest"), readable \in BOOLEAN :
        /\ Spend(Failing(lines) \/ ~readable)
        /\ IF HttpGetReturns(lines) /\ readable /\ Matches(run[r].body)
           THEN run' = [run EXCEPT ![r].pc = "extract"]
           ELSE run' = [run EXCEPT ![r].pc = "idle", ![r].outcome = "warned"]
    /\ UNCHANGED <<redirects, lib, marker, crashes>>

\* The temporary archive could not be written, or holds no library.
ExtractRefused(r) ==
    /\ At(r, "extract")
    /\ Spend(TRUE)
    /\ Warned(r)
    /\ UNCHANGED <<redirects, lib, marker, crashes>>

\* Mutant: the marker is written before the library is extracted.
MarkerFirst(r) ==
    /\ At(r, "extract")
    /\ run' = [run EXCEPT ![r].pc = "extracting"]
    /\ lib' = IF run[r].version \in Nested THEN lib ELSE [body |-> run[r].body, whole |-> FALSE]
    /\ marker' = run[r].version
    /\ UNCHANGED <<redirects, crashes, failures>>

\* extractTo opens what it extracts: the library itself, or one in a directory.
ExtractBegins(r) ==
    /\ At(r, "extract")
    /\ run' = [run EXCEPT ![r].pc = "extracting"]
    /\ lib' = IF run[r].version \in Nested THEN lib ELSE [body |-> run[r].body, whole |-> FALSE]
    /\ UNCHANGED <<redirects, marker, crashes, failures>>

\* The library is written to its end, or renamed to its place.
ExtractEnds(r) ==
    /\ At(r, "extracting")
    /\ lib' = [body |-> run[r].body, whole |-> TRUE]
    /\ run' = [run EXCEPT ![r].pc = "marker"]
    /\ UNCHANGED <<redirects, marker, crashes, failures>>

ExtractFails(r) ==
    /\ At(r, "extracting")
    /\ Spend(TRUE)
    /\ Warned(r)
    /\ UNCHANGED <<redirects, lib, marker, crashes>>

\* The result of file_put_contents is not looked at: a marker that could not be
\* opened, or not be written to its end, is a success.
WriteMarker(r) ==
    /\ At(r, "marker")
    /\ \/ Spend(FALSE) /\ marker' = run[r].version
       \/ Spend(TRUE) /\ marker' \in {marker, Torn}
    /\ Ended(r, "installed")
    /\ UNCHANGED <<redirects, lib, crashes>>

\* The run is killed.
Crash(r) ==
    /\ ~At(r, "idle")
    /\ crashes < MaxCrashes
    /\ crashes' = crashes + 1
    /\ Ended(r, "crashed")
    /\ UNCHANGED <<redirects, lib, marker, failures>>

Download(r) == \E v \in Versions : Skip(r, v) \/ Start(r, v)

Step(r) ==
    \/ GetTarball(r) \/ GetManifest(r)
    \/ ExtractRefused(r) \/ ExtractBegins(r) \/ ExtractEnds(r) \/ ExtractFails(r)
    \/ WriteMarker(r)

Next ==
    \E r \in Runs : SkipForEnv(r) \/ Misconfigured(r) \/ Download(r) \/ Step(r) \/ Crash(r)

Spec == Init /\ [][Next]_vars

\* A run that started goes on, and composer install is run again until it installs.
FairSpec ==
    /\ Spec
    /\ \A r \in Runs : WF_vars(Step(r)) /\ WF_vars(Download(r))

-----------------------------------------------------------------------------
(* Properties *)

\* The state is of its types; a run that has something to extract has verified it.
TypeOK ==
    /\ redirects \subseteq Urls
    /\ lib \in {NoLib} \cup [body : Bodies, whole : BOOLEAN]
    /\ marker \in {None, Torn} \cup Versions
    /\ \A r \in Runs :
        /\ run[r].pc \in {"idle", "tarball", "manifest", "extract", "extracting", "marker"}
        /\ run[r].pc # "idle" => run[r].version \in Versions
        /\ run[r].outcome \in {None, "env", "warned", "skipped", "installed", "crashed"}
        /\ run[r].pc \in {"extract", "extracting", "marker"} => run[r].body = Good(run[r].version)
    /\ crashes \in 0..MaxCrashes
    /\ failures \in 0..MaxFailures

\* Whatever is killed or fails, and whichever runs overlap, the library on disk is
\* never made of bytes other than those of a published archive.
OnlyVerified == lib # NoLib => lib.body.good

\* A marker names a version only when all of that version's library is there.
MarkerTrue == marker \in Versions => lib = [body |-> Good(marker), whole |-> TRUE]

\* From a host that redirects either download nothing is ever installed, however
\* often composer is run and although every redirect is followed to its end.
NothingThroughRedirects == redirects # {} => lib = NoLib /\ marker = None

\* Runs that fail and are run again end with the whole library and its marker where
\* the host answers itself, and never where it redirects.
Converges ==
    IF redirects = {} THEN <>[](marker \in Versions /\ lib = [body |-> Good(marker), whole |-> TRUE])
                      ELSE []NothingThroughRedirects

\* "Skipped when: [...] The cdylib already exists at the requested version (marker
\* match)."
SkippedMeansInstalled ==
    [][\A r \in Runs, v \in Versions :
            Skip(r, v) => lib = [body |-> Good(v), whole |-> TRUE]]_vars
=============================================================================
