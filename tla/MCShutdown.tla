----------------------------- MODULE MCShutdown -----------------------------
(***************************************************************************)
(* The exit flushes of the two SDKs in one run: Node's, which run as the   *)
(* event loop ends, and Python's, which interrupt the main thread.  The    *)
(* two senders share no code and no state; "sdk" chooses one.              *)
(***************************************************************************)
EXTENDS AuditShutdown, PythonSender

VARIABLE sdk

shutdownVars == <<allVars, pyVars, sdk>>

ShutdownInit == ExitInit /\ PyInit /\ sdk \in {"typescript", "python"}
ShutdownNext ==
  /\ UNCHANGED sdk
  /\ \/ sdk = "typescript" /\ ExitNext /\ UNCHANGED pyVars
     \/ sdk = "python" /\ PyNext /\ UNCHANGED allVars

\* The fairness of the Node process, whose liveness the run checks.
ShutdownSpec ==
  ShutdownInit /\ [][ShutdownNext]_shutdownVars /\ (sdk = "typescript" => ExitFairness)

AcceptOrDiscard == {200, 400}
=============================================================================
