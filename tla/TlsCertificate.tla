--------------------------- MODULE TlsCertificate ---------------------------
(***************************************************************************)
(* services/tls-certificate-manager.ts and the HTTPS server of             *)
(* lib/health.ts: the agent's own certificate is requested from the vault, *)
(* written to two files, recorded in the configuration, acknowledged and   *)
(* renewed before it expires; the server loads the two files at its start, *)
(* when the manager says so and when one of them changes.                  *)
(*                                                                         *)
(* A certificate is the number of its issue.  Time is what makes it due    *)
(* for renewal; the delays between checks are left out.                    *)
(***************************************************************************)
EXTENDS Naturals, FiniteSets

CONSTANTS
  MaxCert,    \* bound: certificates the vault issues
  MaxFaults   \* bound: failed requests and writes, stops and kills

ASSUME TlsAssumption == MaxCert \in Nat /\ MaxFaults \in Nat /\ MaxFaults < MaxCert

VARIABLES
  issued,   \* the vault: certificates issued so far
  active,   \* the vault: the last one the agent has acknowledged, 0 for none
  due,      \* certificates up to this one are within renewBeforeDays of their expiry
  cert,     \* the certificate file, 0 for missing
  key,      \* the key file, 0 for missing
  saved,    \* the certificate whose expiry is in the configuration, 0 for none
  daemon,   \* the phase the daemon is in
  exp,      \* the certificate whose expiry the manager knows, 0 for none
  timer,    \* checkTimer is set
  check,    \* what checkAndRenewIfNeeded() does, and with which certificate
  server,   \* the certificate the HTTPS server has loaded
  changed,  \* files that changed since the watchers looked
  notes,    \* history: what was cut off or failed for the certificate in the files
  faults    \* faults so far

vault == <<issued, active, due>>
files == <<cert, key>>
https == <<server, changed>>
tlsVars == <<vault, files, saved, daemon, exp, timer, check, https, notes, faults>>

Certs    == 1..MaxCert
Empty    == MaxCert + 1   \* a file that has been opened for writing
NoServer == MaxCert + 2
Broken   == 0             \* a server whose certificate or key is empty: no handshake succeeds
NoCheck  == [pc |-> "none", v |-> 0, by |-> "timer"]
Steps    == {"none", "look", "info", "request", "renew", "answer", "cert", "between", "key",
             "written", "activate"}
Phases   == {"down", "starting", "up", "stopping"}

Fault == faults < MaxFaults /\ faults' = faults + 1
At(pc) == check.pc = pc
Go(pc) == check' = [check EXCEPT !.pc = pc]

TlsInit ==
  /\ issued = 0 /\ active = 0 /\ due = 0 /\ cert = 0 /\ key = 0 /\ saved = 0
  /\ daemon = "down" /\ exp = 0 /\ timer = FALSE /\ check = NoCheck
  /\ server = NoServer /\ changed = {} /\ notes = {} /\ faults = 0

(* A certificate comes close to its expiry; bound: there are certificates left to renew it, also
   when every fault to come costs one. *)
Ages ==
  /\ due < issued /\ due' = issued
  /\ issued + (MaxFaults - faults) < MaxCert /\ daemon # "stopping"
  /\ UNCHANGED <<issued, active, files, saved, daemon, exp, timer, check, https, notes, faults>>
-----------------------------------------------------------------------------
(* startTLSCertificateManager(), with the expiry of the configuration. *)
Start ==
  /\ daemon = "down" /\ daemon' = "starting" /\ exp' = saved
  /\ check' = [pc |-> "look", v |-> 0, by |-> "start"]
  /\ UNCHANGED <<vault, files, saved, timer, https, notes, faults>>

(* scheduleNextCheck() halves the time until the renewal: its delay may end while the start still
   waits for the files. *)
TimerFires ==
  /\ timer /\ timer' = FALSE /\ Go("look")
  /\ UNCHANGED <<vault, files, saved, daemon, exp, https, notes, faults>>

(* The end of every check: scheduleNextCheck(). *)
Schedule == check' = NoCheck /\ timer' = (daemon # "stopping")

(* Renew a certificate that is due. *)
Decide(e) == IF e # 0 /\ e <= due THEN Go("renew") /\ UNCHANGED timer ELSE Schedule

(* checkAndRenewIfNeeded() looks at the certificate file, not at the key. *)
Look ==
  /\ At("look")
  /\ CASE cert \notin Certs             -> Go("request") /\ UNCHANGED timer
       [] cert \in Certs /\ exp = 0     -> Go("info") /\ UNCHANGED timer
       [] cert \in Certs /\ exp # 0     -> Decide(exp)
  /\ UNCHANGED <<vault, files, saved, daemon, exp, https, notes, faults>>

(* getAgentTLSCertificate() gives the expiry of the newest certificate; without it the check
   ends, to be tried again. *)
Info ==
  /\ At("info")
  /\ \/ exp' = issued /\ Decide(issued) /\ UNCHANGED faults
     \/ Fault /\ Schedule /\ UNCHANGED exp
  /\ UNCHANGED <<vault, files, saved, daemon, https, notes>>

(* The vault issues a certificate; an answer that is lost makes request() ask again. *)
Issue ==
  /\ check.pc \in {"request", "renew"} /\ issued' = issued + 1
  /\ \/ check' = [pc |-> "answer", v |-> issued', by |-> check.by] /\ UNCHANGED faults
     \/ Fault /\ UNCHANGED check
  /\ UNCHANGED <<active, due, files, saved, daemon, exp, timer, https, notes>>

(* Mutant: a request that failed is the last one. *)
IssueFails_Last ==
  /\ Fault /\ check.pc \in {"request", "renew"} /\ issued' \in {issued, issued + 1}
  /\ check' = NoCheck /\ UNCHANGED timer
  /\ UNCHANGED <<active, due, files, saved, daemon, exp, https, notes>>

(* The request fails for good, the certificate issued or not. *)
IssueFails ==
  /\ Fault /\ check.pc \in {"request", "renew"} /\ issued' \in {issued, issued + 1} /\ Schedule
  /\ UNCHANGED <<active, due, files, saved, daemon, exp, https, notes>>
-----------------------------------------------------------------------------
Touched(f) == changed' = IF server = NoServer THEN changed ELSE changed \union {f}

(* writeCertificateFiles(): first the certificate, then the key, each opened and then written. *)
OpenCert ==
  /\ At("answer") /\ Go("cert") /\ cert' = Empty /\ Touched("cert")
  /\ UNCHANGED <<vault, key, saved, daemon, exp, timer, server, notes, faults>>

(* Mutant: the expiry is recorded before the key is written. *)
WriteCert_Records ==
  /\ At("cert") /\ Go("between") /\ cert' = check.v /\ Touched("cert")
  /\ exp' = check.v /\ saved' = check.v
  /\ UNCHANGED <<vault, key, daemon, timer, server, notes, faults>>

WriteCert ==
  /\ At("cert") /\ Go("between") /\ cert' = check.v /\ Touched("cert")
  /\ UNCHANGED <<vault, key, saved, daemon, exp, timer, server, notes, faults>>

OpenKey ==
  /\ At("between") /\ Go("key") /\ key' = Empty /\ Touched("key")
  /\ UNCHANGED <<vault, cert, saved, daemon, exp, timer, server, notes, faults>>

WriteKey ==
  /\ At("key") /\ Go("written") /\ key' = check.v /\ Touched("key")
  /\ UNCHANGED <<vault, cert, saved, daemon, exp, timer, server, notes, faults>>

(* The certificate is cut off from its key while the configuration has no expiry: the next checks
   find a certificate that is not due. *)
Cut == IF saved = 0 /\ check.pc \in {"between", "key"} THEN {"first"} ELSE {}

FilesFail ==
  /\ Fault /\ check.pc \in {"answer", "cert", "between", "key"} /\ Schedule
  /\ notes' = notes \union Cut
  /\ UNCHANGED <<vault, files, saved, daemon, exp, https>>

(* The state and the configuration have the new expiry; the configuration may fail to be saved. *)
Installed ==
  /\ At("written") /\ exp' = check.v
  /\ \/ saved' = check.v /\ Go("activate") /\ notes' = {} /\ UNCHANGED <<timer, faults>>
     \/ Fault /\ Schedule /\ notes' = {"unacknowledged"} /\ UNCHANGED saved
  /\ UNCHANGED <<vault, files, daemon, https>>
-----------------------------------------------------------------------------
(* What a secure context made of the two files is: none for a certificate and a key that do not
   belong together, and a useless one when a file is empty. *)
Loads   == Empty \in {cert, key} \/ cert = key
Context == IF Empty \in {cert, key} THEN Broken ELSE cert

(* setSecureContext() with the files as they are now; an error leaves the server as it was. *)
ReloadContext == server' = IF server # NoServer /\ Loads THEN Context ELSE server

(* activateAgentTLSCertificate(), and the manager tells the server, unless it has been stopped. *)
Activate ==
  /\ At("activate") /\ active' = check.v /\ Schedule
  /\ IF daemon = "stopping" THEN UNCHANGED server ELSE ReloadContext
  /\ UNCHANGED <<issued, due, files, saved, daemon, exp, changed, notes, faults>>

(* The acknowledgement fails, or only its answer is lost; nothing sends it again. *)
ActivateFails ==
  /\ Fault /\ At("activate") /\ active' \in {active, check.v} /\ Schedule
  /\ notes' = notes \union {"unacknowledged"}
  /\ UNCHANGED <<issued, due, files, saved, daemon, exp, https>>

(* Mutant: only the certificate file is watched. *)
Watched_CertOnly(f) ==
  /\ f \in changed /\ changed' = changed \ {f}
  /\ IF f = "cert" THEN ReloadContext ELSE UNCHANGED server
  /\ UNCHANGED <<vault, files, saved, daemon, exp, timer, check, notes, faults>>

(* watchFile() sees that a file has changed. *)
Watched(f) ==
  /\ f \in changed /\ changed' = changed \ {f} /\ ReloadContext
  /\ UNCHANGED <<vault, files, saved, daemon, exp, timer, check, notes, faults>>

(* ensureCertificateReady() waits for the first check, then for the files to exist, 30 seconds at
   most, and the server is started with them, once; its port may be in use. *)
ServerStarts ==
  /\ daemon = "starting" /\ check.by = "timer" /\ daemon' = "up"
  /\ \/ /\ server' = IF 0 \notin {cert, key} /\ Loads THEN Context ELSE NoServer
        /\ UNCHANGED faults
     \/ Fault /\ UNCHANGED server
  /\ UNCHANGED <<vault, files, saved, exp, timer, check, changed, notes>>

(* stopTLSCertificateManager(), in the shutdown. *)
Stop ==
  /\ Fault /\ daemon = "up" /\ daemon' = "stopping" /\ timer' = FALSE /\ exp' = 0
  /\ UNCHANGED <<vault, files, saved, check, https, notes>>

(* The process ends, in the middle of a check or not. *)
Ends ==
  /\ daemon' = "down" /\ exp' = 0 /\ timer' = FALSE /\ check' = NoCheck
  /\ server' = NoServer /\ changed' = {}
  /\ notes' = notes \union Cut \union (IF check.pc \in {"between", "key", "written", "activate"}
                                        THEN {"unacknowledged"} ELSE {})
  /\ UNCHANGED <<vault, files, saved>>

Exit   == daemon = "stopping" /\ Ends /\ UNCHANGED faults
Killed == daemon # "down" /\ Ends /\ Fault
-----------------------------------------------------------------------------
TlsStep == \/ Start \/ Look \/ Info \/ Issue \/ OpenCert \/ WriteCert \/ OpenKey \/ WriteKey
           \/ Installed \/ Activate \/ ServerStarts

TlsNext ==
  \/ Ages \/ TimerFires \/ TlsStep \/ IssueFails \/ FilesFail \/ ActivateFails
  \/ \E f \in {"cert", "key"} : Watched(f)
  \/ Stop \/ Exit \/ Killed

(* The unit has Restart=always, requests end, timers fire and the watchers poll. *)
TlsFairness == WF_tlsVars(TimerFires) /\ WF_tlsVars(TlsStep) /\ WF_tlsVars(Exit)
                 /\ \A f \in {"cert", "key"} : WF_tlsVars(Watched(f))

TlsSpec == TlsInit /\ [][TlsNext]_tlsVars /\ TlsFairness
-----------------------------------------------------------------------------
(* Type invariant; one check at a time, and none that was not begun before the stop: the timer is
   set only while the daemon runs and no check does. *)
TlsTypeOK ==
  /\ issued \in 0..MaxCert /\ active \in 0..issued /\ due \in 0..issued
  /\ {cert, key} \subseteq (0..issued) \union {Empty} /\ {saved, exp} \subseteq 0..issued
  /\ daemon \in Phases /\ check \in [pc : Steps, v : 0..MaxCert, by : {"start", "timer"}]
  /\ server \in (0..issued) \union {NoServer} /\ changed \subseteq {"cert", "key"}
  /\ notes \subseteq {"first", "unacknowledged"} /\ faults \in 0..MaxFaults /\ timer \in BOOLEAN
  /\ check.by = "start" => daemon = "starting"
  /\ timer => check = NoCheck /\ daemon \in {"starting", "up"}
  /\ check.pc \in {"request", "renew"} => issued < MaxCert

(* Neither the configuration nor the vault takes a certificate for installed before both files
   have it, whatever is cut off: an expiry that lies later would put off the renewal, and the
   vault may retire the certificate before. *)
InstalledFirst == \A f \in {cert, key} \intersect Certs : saved <= f /\ active <= f

(* A certificate that is due is renewed in the end, whatever fails, unless the manager has the
   expiry of one that was issued and never came to the files. *)
DueIsRenewed == <>[](cert \in Certs /\ (cert > due \/ exp > cert))

(* In the end the two files belong together: an installation that is cut off between them is
   followed by another one, for the expiry that is recorded is still that of the certificate
   before.  Only when there was none before, the next checks take the vault's expiry and leave
   the files as they are (checkAndRenewIfNeeded looks at the certificate file alone). *)
PairInstalled == <>[](cert \in Certs /\ (cert = key \/ "first" \in notes))

(* A server that was started ends up with the certificate in the files, also when the manager
   does not tell it because the acknowledgement failed. *)
ServedIsInstalled ==
  <>[](server = NoServer \/ (server = cert /\ cert = key) \/ "first" \in notes)

(* The vault gets to know which certificate is in use, unless the acknowledgement failed or was
   cut off: it is not sent again. *)
Acknowledged == <>[](active = cert \/ notes # {})
=============================================================================
