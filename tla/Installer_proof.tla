-------------------------- MODULE Installer_proof --------------------------
(***************************************************************************)
(* Proofs about Installer, for every set of runs and versions and every    *)
(* number of crashes and failures.                                         *)
(***************************************************************************)
EXTENDS Installer, TLAPS

\* Of the state of a run, what verification and extraction leave alone.
RunType ==
    [pc : {"idle", "tarball", "manifest", "extract", "extracting", "marker"},
     version : Versions \cup {None, "misconfigured"},
     body : Bodies \cup {NoBody},
     outcome : {None, "env", "warned", "skipped", "installed", "crashed"}]

\* A run past the comparison of the hashes holds the archive as published, and
\* so does the library, be it whole or not.
InstallInv ==
    /\ TypeOK
    /\ OnlyVerified
    /\ run \in [Runs -> RunType]
    /\ \A r \in Runs : At(r, "manifest") => run[r].body \in Bodies /\ run[r].body.version = run[r].version

LEMMA InitInstall == Init => InstallInv
  BY BoundsAssumption DEF Init, InstallInv, TypeOK, OnlyVerified, RunType, Idle, NoLib, At

\* A step that changes the disk no further than an archive as published allows, and
\* one run only.
LEMMA InstallStep ==
    ASSUME InstallInv, NEW r \in Runs, NEW s \in RunType, run' = [run EXCEPT ![r] = s],
           s.pc # "idle" => s.version \in Versions,
           s.pc = "manifest" => s.body \in Bodies /\ s.body.version = s.version,
           s.pc \in {"extract", "extracting", "marker"} => s.body = Good(s.version),
           lib' = lib \/ lib' \in [body : {Good(v) : v \in Versions}, whole : BOOLEAN],
           marker' \in {marker, Torn} \cup Versions,
           redirects' = redirects, crashes' \in 0..MaxCrashes, failures' \in 0..MaxFailures
    PROVE  InstallInv'
<1>1. run' \in [Runs -> RunType] /\ run'[r] = s /\ \A q \in Runs \ {r} : run'[q] = run[q]
  BY DEF InstallInv
<1>2. lib' \in {NoLib} \cup [body : Bodies, whole : BOOLEAN] /\ OnlyVerified'
  <2>1. CASE lib' = lib
    BY <2>1 DEF InstallInv, TypeOK, OnlyVerified
  <2>2. CASE lib' \in [body : {Good(v) : v \in Versions}, whole : BOOLEAN]
    <3>1. PICK v \in Versions : lib'.body = Good(v)
      BY <2>2
    <3>2. Good(v) \in Bodies /\ Good(v).good
      BY DEF Good, Bodies
    <3>3. lib' \in [body : Bodies, whole : BOOLEAN]
      BY <2>2, <3>1, <3>2
    <3>4. QED
      BY <3>1, <3>2, <3>3 DEF OnlyVerified
  <2>3. QED
    BY <2>1, <2>2
<1>3. marker' \in {None, Torn} \cup Versions /\ redirects' \subseteq Urls
  BY DEF InstallInv, TypeOK
<1>4. ASSUME NEW q \in Runs
      PROVE  /\ run'[q].pc \in {"idle", "tarball", "manifest", "extract", "extracting", "marker"}
             /\ run'[q].pc # "idle" => run'[q].version \in Versions
             /\ run'[q].outcome \in {None, "env", "warned", "skipped", "installed", "crashed"}
             /\ run'[q].pc \in {"extract", "extracting", "marker"} =>
                    run'[q].body = Good(run'[q].version)
             /\ run'[q].pc = "manifest" =>
                    run'[q].body \in Bodies /\ run'[q].body.version = run'[q].version
  <2>1. CASE q = r
    BY <1>1, <2>1 DEF RunType
  <2>2. CASE q # r
    BY <1>1, <2>2 DEF InstallInv, TypeOK, At
  <2>3. QED
    BY <2>1, <2>2
<1>5. QED
  BY <1>1, <1>2, <1>3, <1>4 DEF InstallInv, TypeOK, At

LEMMA SpendBound == ASSUME NEW bad \in BOOLEAN, failures \in 0..MaxFailures, Spend(bad)
                    PROVE  failures' \in 0..MaxFailures
  BY BoundsAssumption DEF Spend

\* Run r is at its beginning, or has ended.
Begins(r) ==
    \E s \in RunType :
        /\ run' = [run EXCEPT ![r] = s]
        /\ s.pc \in {"idle", "tarball"}
        /\ s.pc = "tarball" => s.version \in Versions

\* That is what a run does that begins, or that has nothing to do.
LEMMA RunBegins ==
    ASSUME NEW r \in Runs, SkipForEnv(r) \/ Misconfigured(r) \/ Download(r)
    PROVE  Begins(r)
<1> USE DEF Begins, RunType, At
<1>1. CASE SkipForEnv(r)
  <2>1. [Idle EXCEPT !.outcome = "env"] \in RunType
    BY DEF Idle
  <2>2. QED
    BY <1>1, <2>1 DEF SkipForEnv, Idle
<1>2. CASE Misconfigured(r)
  <2>1. [Idle EXCEPT !.outcome = "warned", !.version = "misconfigured"] \in RunType
    BY DEF Idle
  <2>2. QED
    BY <1>2, <2>1 DEF Misconfigured, Idle
<1>3. CASE Download(r)
  <2>1. PICK v \in Versions : Skip(r, v) \/ Start(r, v)
    BY <1>3 DEF Download
  <2>2. /\ [Idle EXCEPT !.outcome = "skipped", !.version = v] \in RunType
        /\ [Idle EXCEPT !.pc = "tarball", !.version = v] \in RunType
    BY DEF Idle
  <2>3. QED
    BY <2>1, <2>2 DEF Skip, Start, Idle
<1>4. QED
  BY <1>1, <1>2, <1>3

LEMMA NextInstall == InstallInv /\ [Next]_vars => InstallInv'
<1> SUFFICES ASSUME InstallInv, [Next]_vars PROVE InstallInv'
  OBVIOUS
<1>1. /\ run \in [Runs -> RunType]
      /\ marker \in {None, Torn} \cup Versions
      /\ crashes \in 0..MaxCrashes /\ failures \in 0..MaxFailures
  BY DEF InstallInv, TypeOK
<1> USE DEF RunType, At
<1>2. ASSUME NEW r \in Runs, SkipForEnv(r) \/ Misconfigured(r) \/ Download(r)
      PROVE  InstallInv'
  <2> HIDE DEF RunType, At
  <2>1. UNCHANGED <<redirects, lib, marker, crashes, failures>>
    BY <1>2 DEF SkipForEnv, Misconfigured, Download, Skip, Start
  <2>2. PICK s \in RunType : /\ run' = [run EXCEPT ![r] = s]
                             /\ s.pc \in {"idle", "tarball"}
                             /\ s.pc = "tarball" => s.version \in Versions
    BY <1>2, RunBegins DEF Begins
  <2>3. QED
    BY <1>1, <2>1, <2>2, InstallStep
<1>3. ASSUME NEW r \in Runs, GetTarball(r) PROVE InstallInv'
  <2>1. PICK lines \in StatusLines("archive"), good \in BOOLEAN :
          /\ Spend(Failing(lines) \/ ~good)
          /\ IF HttpGetReturns(lines)
             THEN LET body == [version |-> run[r].version, good |-> good]
                  IN  run' = [run EXCEPT ![r].pc = "manifest", ![r].body = body]
             ELSE run' = [run EXCEPT ![r].pc = "idle", ![r].outcome = "warned"]
    BY <1>3 DEF GetTarball
  <2>2. failures' \in 0..MaxFailures
    BY <1>1, <2>1, SpendBound
  <2>3. run[r].version \in Versions /\ UNCHANGED <<redirects, lib, marker, crashes>>
    BY <1>3 DEF GetTarball, InstallInv, TypeOK
  <2> DEFINE body == [version |-> run[r].version, good |-> good]
             got == [run[r] EXCEPT !.pc = "manifest", !.body = body]
             lost == [run[r] EXCEPT !.pc = "idle", !.outcome = "warned"]
  <2>4. /\ got \in RunType /\ got.pc = "manifest" /\ got.version = run[r].version
        /\ got.body \in Bodies /\ got.body.version = got.version
    BY <1>1, <2>3 DEF Bodies
  <2>5. lost \in RunType /\ lost.pc = "idle"
    BY <1>1
  <2>6. run' = [run EXCEPT ![r] = got] \/ run' = [run EXCEPT ![r] = lost]
    BY <1>1, <2>1
  <2> HIDE DEF got, lost, body
  <2>7. QED
    BY <1>1, <2>2, <2>3, <2>4, <2>5, <2>6, InstallStep
<1>4. ASSUME NEW r \in Runs, GetManifest(r) PROVE InstallInv'
  <2>1. PICK lines \in StatusLines("manifest"), readable \in BOOLEAN :
          /\ Spend(Failing(lines) \/ ~readable)
          /\ IF HttpGetReturns(lines) /\ readable /\ Matches(run[r].body)
             THEN run' = [run EXCEPT ![r].pc = "extract"]
             ELSE run' = [run EXCEPT ![r].pc = "idle", ![r].outcome = "warned"]
    BY <1>4 DEF GetManifest
  <2>2. failures' \in 0..MaxFailures
    BY <1>1, <2>1, SpendBound
  <2>3. /\ run[r].version \in Versions /\ UNCHANGED <<redirects, lib, marker, crashes>>
        /\ run[r].body \in Bodies /\ run[r].body.version = run[r].version
    BY <1>4 DEF GetManifest, InstallInv, TypeOK
  <2> DEFINE got == [run[r] EXCEPT !.pc = "extract"]
             lost == [run[r] EXCEPT !.pc = "idle", !.outcome = "warned"]
  <2>4. /\ got \in RunType /\ got.pc = "extract" /\ got.version = run[r].version
        /\ got.body = run[r].body
    BY <1>1
  <2>5. lost \in RunType /\ lost.pc = "idle"
    BY <1>1
  <2>6. \/ run' = [run EXCEPT ![r] = got] /\ Matches(run[r].body)
        \/ run' = [run EXCEPT ![r] = lost]
    BY <1>1, <2>1
  <2>7. Matches(run[r].body) => run[r].body = Good(run[r].version)
    BY <2>3 DEF Matches, Good, Bodies
  <2> HIDE DEF got, lost
  <2>8. QED
    BY <1>1, <2>2, <2>3, <2>4, <2>5, <2>6, <2>7, InstallStep
<1>5. ASSUME NEW r \in Runs,
             ExtractRefused(r) \/ ExtractFails(r) \/ WriteMarker(r) \/ Crash(r)
      PROVE  InstallInv'
  <2>1. \E s \in RunType : s.pc = "idle" /\ run' = [run EXCEPT ![r] = s]
    <3> DEFINE s(o) == [run[r] EXCEPT !.pc = "idle", !.outcome = o]
    <3>1. \A o \in {"warned", "installed", "crashed"} : s(o) \in RunType /\ s(o).pc = "idle"
      BY <1>1
    <3>2. \E o \in {"warned", "installed", "crashed"} : run' = [run EXCEPT ![r] = s(o)]
      BY <1>1, <1>5 DEF ExtractRefused, ExtractFails, WriteMarker, Crash, Warned, Ended
    <3> HIDE DEF s
    <3>3. QED
      BY <3>1, <3>2
  <2>2. lib' = lib /\ redirects' = redirects
    BY <1>5 DEF ExtractRefused, ExtractFails, WriteMarker, Crash
  <2>3. crashes' \in 0..MaxCrashes
    <3>1. CASE Crash(r)
      BY <1>1, <3>1, BoundsAssumption DEF Crash
    <3>2. CASE ~Crash(r)
      BY <1>1, <1>5, <3>2 DEF ExtractRefused, ExtractFails, WriteMarker
    <3>3. QED
      BY <3>1, <3>2
  <2>4. failures' \in 0..MaxFailures
    BY <1>1, <1>5, SpendBound DEF ExtractRefused, ExtractFails, WriteMarker, Crash
  <2>5. marker' \in {marker, Torn} \cup Versions
    BY <1>5 DEF ExtractRefused, ExtractFails, WriteMarker, Crash, InstallInv, TypeOK
  <2>6. QED
    BY <2>1, <2>2, <2>3, <2>4, <2>5, InstallStep
<1>6. ASSUME NEW r \in Runs, ExtractBegins(r) \/ ExtractEnds(r)
      PROVE  InstallInv'
  <2>1. /\ run[r].version \in Versions /\ run[r].body = Good(run[r].version)
        /\ UNCHANGED <<redirects, marker, crashes, failures>>
    BY <1>6 DEF ExtractBegins, ExtractEnds, InstallInv, TypeOK
  <2>2. lib' = lib \/ lib' \in [body : {Good(v) : v \in Versions}, whole : BOOLEAN]
    <3>1. \A whole \in BOOLEAN :
            [body |-> run[r].body, whole |-> whole] \in [body : {Good(v) : v \in Versions}, whole : BOOLEAN]
      BY <2>1
    <3>2. lib' \in {lib, [body |-> run[r].body, whole |-> FALSE], [body |-> run[r].body, whole |-> TRUE]}
      BY <1>6 DEF ExtractBegins, ExtractEnds
    <3>3. QED
      BY <3>1, <3>2
  <2> DEFINE s(pc) == [run[r] EXCEPT !.pc = pc]
  <2>3. \A pc \in {"extracting", "marker"} :
          s(pc) \in RunType /\ s(pc).pc = pc /\ s(pc).version = run[r].version /\ s(pc).body = run[r].body
    BY <1>1
  <2>4. \E pc \in {"extracting", "marker"} : run' = [run EXCEPT ![r] = s(pc)]
    BY <1>1, <1>6 DEF ExtractBegins, ExtractEnds
  <2> HIDE DEF s
  <2>5. PICK pc \in {"extracting", "marker"} : run' = [run EXCEPT ![r] = s(pc)]
    BY <2>4
  <2>6. /\ s(pc) \in RunType /\ s(pc).pc = pc
        /\ s(pc).version \in Versions /\ s(pc).body = Good(s(pc).version)
    BY <2>1, <2>3
  <2>7. marker' \in {marker, Torn} \cup Versions
    BY <2>1
  <2>8. QED
    BY <1>1, <2>1, <2>2, <2>5, <2>6, <2>7, InstallStep
<1>7. CASE UNCHANGED vars
  BY <1>7 DEF vars, InstallInv, TypeOK, OnlyVerified
<1>8. QED
  BY <1>2, <1>3, <1>4, <1>5, <1>6, <1>7 DEF Next, Step

\* InstallInv is an invariant: the argument all of the following rests on.
THEOREM InstallInvariance == Spec => []InstallInv
<1>1. QED
  BY InitInstall, NextInstall, PTL DEF Spec

\* The installer is type correct: a run has verified what it extracts.
THEOREM InstallTypeCorrect == Spec => []TypeOK
<1>1. InstallInv => TypeOK
  BY DEF InstallInv
<1>2. QED
  BY <1>1, InstallInvariance, PTL

\* However many runs overlap, crash and fail: nothing unverified is put on disk.
THEOREM NothingUnverified == Spec => []OnlyVerified
<1>1. InstallInv => OnlyVerified
  BY DEF InstallInv
<1>2. QED
  BY <1>1, InstallInvariance, PTL

-----------------------------------------------------------------------------
(* A host that redirects. *)

\* No run gets past the download that is redirected.
RedirectInv ==
    redirects # {} =>
        /\ NothingThroughRedirects
        /\ \A r \in Runs : run[r].pc \in {"idle", "tarball", "manifest"}
        /\ \A r \in Runs : At(r, "manifest") => "archive" \notin redirects

\* A GET that follows a redirect is refused, whatever it ends with.
LEMMA RedirectRefused ==
    ASSUME NEW url \in redirects, NEW lines \in StatusLines(url)
    PROVE  ~HttpGetReturns(lines)
<1>1. lines \in {Unreachable, <<"3xx", "2xx">>, <<"3xx", "4xx">>}
  BY DEF StatusLines
<1>2. CASE lines = Unreachable
  BY <1>2 DEF HttpGetReturns
<1>3. CASE lines \in {<<"3xx", "2xx">>, <<"3xx", "4xx">>}
  <2>1. lines # <<>> /\ Head(lines) = "3xx"
    BY <1>3
  <2>2. QED
    BY <2>1 DEF HttpGetReturns, ParsedStatus, None
<1>4. QED
  BY <1>1, <1>2, <1>3

LEMMA NextRedirect ==
    ASSUME InstallInv, RedirectInv, [Next]_vars
    PROVE  RedirectInv'
<1>1. run \in [Runs -> RunType]
  BY DEF InstallInv
<1>2. redirects' = redirects /\ redirects \subseteq Urls
  BY DEF Next, vars, Step, Download, Skip, Start, SkipForEnv, Misconfigured, GetTarball, GetManifest,
         ExtractRefused, ExtractBegins, ExtractEnds, ExtractFails, WriteMarker, Crash, InstallInv, TypeOK
<1> SUFFICES ASSUME redirects # {} PROVE RedirectInv'
  BY <1>2 DEF RedirectInv
<1>3. /\ lib = NoLib /\ marker = None
      /\ \A r \in Runs : run[r].pc \in {"idle", "tarball", "manifest"}
      /\ \A r \in Runs : run[r].pc = "manifest" => "archive" \notin redirects
  BY DEF RedirectInv, NothingThroughRedirects, At
<1> DEFINE Short(pc) == pc \in {"idle", "tarball"} \/ (pc = "manifest" /\ "archive" \notin redirects)
<1>4. ASSUME NEW r \in Runs, UNCHANGED <<lib, marker>>, NEW s \in RunType, Short(s.pc),
             run' = [run EXCEPT ![r] = s]
      PROVE  RedirectInv'
  <2>1. run'[r] = s /\ \A q \in Runs \ {r} : run'[q] = run[q]
    BY <1>1, <1>4
  <2>2. QED
    BY <1>2, <1>3, <1>4, <2>1 DEF RedirectInv, NothingThroughRedirects, At
<1> USE DEF RunType, At
<1>5. ASSUME NEW r \in Runs, SkipForEnv(r) \/ Misconfigured(r) \/ Download(r)
      PROVE  RedirectInv'
  <2> HIDE DEF RunType, At
  <2>1. PICK s \in RunType : run' = [run EXCEPT ![r] = s] /\ s.pc \in {"idle", "tarball"}
    BY <1>5, RunBegins DEF Begins
  <2>2. UNCHANGED <<lib, marker>>
    BY <1>5 DEF SkipForEnv, Misconfigured, Download, Skip, Start
  <2>3. QED
    BY <1>4, <2>1, <2>2
<1>6. ASSUME NEW r \in Runs, GetTarball(r) PROVE RedirectInv'
  <2>1. PICK lines \in StatusLines("archive"), good \in BOOLEAN :
          IF HttpGetReturns(lines)
          THEN run' = [run EXCEPT ![r].pc = "manifest", ![r].body = [version |-> run[r].version, good |-> good]]
          ELSE run' = [run EXCEPT ![r].pc = "idle", ![r].outcome = "warned"]
    BY <1>6 DEF GetTarball
  <2>2. run[r].version \in Versions /\ UNCHANGED <<lib, marker>>
    BY <1>6 DEF GetTarball, InstallInv, TypeOK
  <2>3. CASE HttpGetReturns(lines)
    <3>1. "archive" \notin redirects
      BY <2>1, <2>3, RedirectRefused
    <3> DEFINE got == [run[r] EXCEPT !.pc = "manifest", !.body = [version |-> run[r].version, good |-> good]]
    <3>2. got \in RunType /\ got.pc = "manifest" /\ run' = [run EXCEPT ![r] = got]
      BY <1>1, <2>1, <2>2, <2>3 DEF Bodies
    <3> HIDE DEF got
    <3>3. QED
      BY <1>4, <2>2, <3>1, <3>2
  <2>4. CASE ~HttpGetReturns(lines)
    <3> DEFINE lost == [run[r] EXCEPT !.pc = "idle", !.outcome = "warned"]
    <3>1. lost \in RunType /\ lost.pc = "idle" /\ run' = [run EXCEPT ![r] = lost]
      BY <1>1, <2>1, <2>4
    <3> HIDE DEF lost
    <3>2. QED
      BY <1>4, <2>2, <3>1
  <2>5. QED
    BY <2>3, <2>4
<1>7. ASSUME NEW r \in Runs, GetManifest(r) PROVE RedirectInv'
  <2>1. PICK lines \in StatusLines("manifest"), readable \in BOOLEAN :
          IF HttpGetReturns(lines) /\ readable /\ Matches(run[r].body)
          THEN run' = [run EXCEPT ![r].pc = "extract"]
          ELSE run' = [run EXCEPT ![r].pc = "idle", ![r].outcome = "warned"]
    BY <1>7 DEF GetManifest
  <2>2. run[r].pc = "manifest" /\ UNCHANGED <<lib, marker>>
    BY <1>7 DEF GetManifest
  <2>3. "manifest" \in redirects
    BY <1>2, <1>3, <2>2 DEF Urls
  <2>4. ~HttpGetReturns(lines)
    BY <2>1, <2>3, RedirectRefused
  <2> DEFINE lost == [run[r] EXCEPT !.pc = "idle", !.outcome = "warned"]
  <2>5. lost \in RunType /\ lost.pc = "idle" /\ run' = [run EXCEPT ![r] = lost]
    BY <1>1, <2>1, <2>4
  <2> HIDE DEF lost
  <2>6. QED
    BY <1>4, <2>2, <2>5
<1>8. ASSUME NEW r \in Runs PROVE ~ExtractRefused(r) /\ ~ExtractBegins(r) /\ ~ExtractEnds(r)
                                 /\ ~ExtractFails(r) /\ ~WriteMarker(r)
  BY <1>3 DEF ExtractRefused, ExtractBegins, ExtractEnds, ExtractFails, WriteMarker
<1>9. ASSUME NEW r \in Runs, Crash(r) PROVE RedirectInv'
  <2> DEFINE dead == [run[r] EXCEPT !.pc = "idle", !.outcome = "crashed"]
  <2>1. dead \in RunType /\ dead.pc = "idle" /\ run' = [run EXCEPT ![r] = dead]
    BY <1>1, <1>9 DEF Crash, Ended
  <2>2. UNCHANGED <<lib, marker>>
    BY <1>9 DEF Crash
  <2> HIDE DEF dead
  <2>3. QED
    BY <1>4, <2>1, <2>2
<1>10. CASE UNCHANGED vars
  BY <1>10 DEF vars, RedirectInv, NothingThroughRedirects
<1>11. QED
  BY <1>5, <1>6, <1>7, <1>8, <1>9, <1>10 DEF Next, Step

\* A host that answers the archive or the manifest with a redirect never has anything
\* installed from it, for any number of runs, kills and failures.
THEOREM RedirectsInstallNothing == Spec => []NothingThroughRedirects
<1>1. Init => RedirectInv
  BY DEF Init, RedirectInv, NothingThroughRedirects, At, Idle
<1>2. InstallInv /\ RedirectInv /\ [Next]_vars => RedirectInv'
  BY NextRedirect
<1>3. RedirectInv => NothingThroughRedirects
  BY DEF RedirectInv, NothingThroughRedirects
<1>4. QED
  BY <1>1, <1>2, <1>3, InstallInvariance, PTL DEF Spec

-----------------------------------------------------------------------------
(* The marker, for one run at a time and one version. *)

\* A run that is under way found no marker, and writes one only over the whole library.
MarkerInv ==
    /\ MarkerTrue
    /\ \A r \in Runs : ~At(r, "idle") => marker \notin Versions
    /\ \A r \in Runs : At(r, "marker") => lib = [body |-> Good(run[r].version), whole |-> TRUE]

\* Where nobody else runs, a step that leaves the marker alone keeps it true if it leaves
\* the library of an idle run alone, and if a run that starts found no marker.
LEMMA MarkerStep ==
    ASSUME NEW r \in Runs, \A p, q \in Runs : p = q, MarkerInv, marker' = marker,
           At(r, "idle") => lib' = lib,
           At(r, "idle") /\ ~At(r, "idle")' => marker \notin Versions,
           At(r, "marker")' => lib' = [body |-> Good(run'[r].version), whole |-> TRUE]
    PROVE  MarkerInv'
<1>1. \A q \in Runs : q = r
  OBVIOUS
<1>2. MarkerTrue'
  BY DEF MarkerInv, MarkerTrue
<1>3. ~At(r, "idle")' => marker' \notin Versions
  BY DEF MarkerInv
<1>4. QED
  BY <1>1, <1>2, <1>3 DEF MarkerInv, At

LEMMA NextMarker ==
    ASSUME \A p, q \in Runs : p = q, \A v, w \in Versions : v = w,
           InstallInv, MarkerInv, [Next]_vars
    PROVE  MarkerInv'
<1>1. run \in [Runs -> RunType]
  BY DEF InstallInv
<1>2. ASSUME NEW r \in Runs, SkipForEnv(r) \/ Misconfigured(r) PROVE MarkerInv'
  <2>1. At(r, "idle") /\ At(r, "idle")' /\ lib' = lib /\ marker' = marker
    BY <1>1, <1>2 DEF SkipForEnv, Misconfigured, At, Idle
  <2>2. ~At(r, "marker")'
    BY <2>1 DEF At
  <2>3. QED
    BY <2>1, <2>2, MarkerStep
<1>3. ASSUME NEW r \in Runs, NEW v \in Versions, Skip(r, v) \/ Start(r, v) PROVE MarkerInv'
  <2>1. /\ At(r, "idle") /\ ~At(r, "marker")' /\ lib' = lib /\ marker' = marker
        /\ ~At(r, "idle")' => ~IsInstalledAtVersion(v)
    BY <1>1, <1>3 DEF Skip, Start, At, Idle
  <2>2. ASSUME marker \in Versions PROVE IsInstalledAtVersion(v)
    <3>1. marker = v
      BY <2>2
    <3>2. lib = [body |-> Good(marker), whole |-> TRUE]
      BY <2>2 DEF MarkerInv, MarkerTrue
    <3>3. lib.whole = TRUE /\ NoLib.whole = FALSE
      BY <3>2, Zenon DEF NoLib
    <3>4. lib # NoLib
      BY <3>3, Zenon
    <3>5. QED
      BY <3>1, <3>4 DEF IsInstalledAtVersion
  <2>3. QED
    BY <2>1, <2>2, MarkerStep
<1>4. ASSUME NEW r \in Runs,
             \/ GetTarball(r) \/ GetManifest(r) \/ ExtractRefused(r) \/ ExtractBegins(r)
             \/ ExtractFails(r) \/ Crash(r)
      PROVE  MarkerInv'
  <2>1. ~At(r, "idle") /\ marker' = marker
    BY <1>4 DEF GetTarball, GetManifest, ExtractRefused, ExtractBegins, ExtractFails, Crash, At
  <2>2. run'[r].pc \in {"idle", "manifest", "extract", "extracting"}
    <3>1. CASE ExtractRefused(r) \/ ExtractFails(r) \/ Crash(r)
      <4>1. run' \in {[run EXCEPT ![r].pc = "idle", ![r].outcome = o] : o \in {"warned", "crashed"}}
        BY <3>1 DEF ExtractRefused, ExtractFails, Crash, Warned, Ended
      <4>2. QED
        BY <1>1, <4>1 DEF RunType
    <3>2. CASE ExtractBegins(r)
      BY <1>1, <3>2 DEF ExtractBegins, RunType
    <3>3. CASE GetManifest(r)
      <4>1. \/ run' = [run EXCEPT ![r].pc = "extract"]
            \/ run' = [run EXCEPT ![r].pc = "idle", ![r].outcome = "warned"]
        BY <3>3 DEF GetManifest
      <4>2. QED
        BY <1>1, <4>1 DEF RunType
    <3>4. CASE GetTarball(r)
      <4>1. \/ \E b : run' = [run EXCEPT ![r].pc = "manifest", ![r].body = b]
            \/ run' = [run EXCEPT ![r].pc = "idle", ![r].outcome = "warned"]
        BY <3>4 DEF GetTarball
      <4>2. QED
        BY <1>1, <4>1 DEF RunType
    <3>5. QED
      BY <1>4, <3>1, <3>2, <3>3, <3>4
  <2>3. ~At(r, "marker")'
    BY <2>2 DEF At
  <2>4. QED
    BY <2>1, <2>3, MarkerStep
<1>5. ASSUME NEW r \in Runs, ExtractEnds(r) PROVE MarkerInv'
  <2>1. /\ ~At(r, "idle") /\ marker' = marker
        /\ lib' = [body |-> run[r].body, whole |-> TRUE] /\ run'[r].version = run[r].version
    BY <1>1, <1>5 DEF ExtractEnds, At, RunType
  <2>2. run[r].body = Good(run[r].version)
    BY <1>5 DEF ExtractEnds, InstallInv, TypeOK, At
  <2>3. QED
    BY <2>1, <2>2, MarkerStep
<1>6. ASSUME NEW r \in Runs, WriteMarker(r) PROVE MarkerInv'
  <2>1. /\ At(r, "marker") /\ At(r, "idle")' /\ lib' = lib
        /\ marker' \in {marker, Torn, run[r].version}
    BY <1>1, <1>6 DEF WriteMarker, Ended, At, RunType
  <2>2. /\ lib = [body |-> Good(run[r].version), whole |-> TRUE] /\ marker \notin Versions
        /\ run[r].version \in Versions
    BY <2>1 DEF MarkerInv, At, InstallInv, TypeOK
  <2>3. MarkerTrue'
    <3>1. marker' \in Versions => marker' = run[r].version
      BY <2>2
    <3>2. QED
      BY <2>1, <2>2, <3>1 DEF MarkerTrue
  <2>4. \A q \in Runs : q = r
    OBVIOUS
  <2>5. QED
    BY <2>1, <2>3, <2>4 DEF MarkerInv, At
<1>7. CASE UNCHANGED vars
  BY <1>7 DEF vars, MarkerInv, MarkerTrue, At
<1>8. QED
  BY <1>2, <1>3, <1>4, <1>5, <1>6, <1>7 DEF Next, Download, Step

\* Where composer runs one at a time and the version stays, a marker is never there
\* without the whole library, whatever is killed and fails.
THEOREM MarkerIsTrue ==
    ASSUME \A p, q \in Runs : p = q, \A v, w \in Versions : v = w, None \notin Versions
    PROVE  Spec => []MarkerTrue
<1>1. Init => MarkerInv
  BY DEF Init, MarkerInv, MarkerTrue, At, Idle
<1>2. InstallInv /\ MarkerInv /\ [Next]_vars => MarkerInv'
  BY NextMarker
<1>3. MarkerInv => MarkerTrue
  BY DEF MarkerInv
<1>4. QED
  BY <1>1, <1>2, <1>3, InstallInvariance, PTL DEF Spec
=============================================================================
