------------------------------ MODULE MCNative ------------------------------
(***************************************************************************)
(* The native app for TLC: SSH forwards, their rules and credentials, and  *)
(* the browser child.  They share no state; a behaviour is one of the four *)
(* parts, the others stay as they start.                                   *)
(***************************************************************************)
EXTENDS SshForward, SshRules, SshCredentials, BrowserChild, TLC

CONSTANTS c1, c2
VARIABLE part

OneConnects == (c1 :> {"connect", "timeout", "dispose"})
               @@ (c2 :> {"set", "disconnect", "leave", "activate", "open"})
Origins == [p \in Pages |-> CASE p = "a1" -> "a" [] p = "b1" -> "b" [] OTHER -> "z"]

nativeVars == <<part, sshVars, ruleVars, cvars, childVars>>

NativeInit ==
  /\ part \in {"forward", "rules", "credentials", "child"}
  /\ SshInit /\ RulesInit /\ CredInit /\ ChildInit
  /\ part # "rules" => Stored = {}
  /\ part # "forward" => desired = [r \in Rules |-> FALSE]
  /\ part # "credentials" => profile = Absent /\ trusted.keys = {}
                             /\ serverTakes = CHOOSE s \in Secrets : TRUE

Forward == part = "forward" /\ SshNext /\ UNCHANGED <<part, ruleVars, cvars, childVars>>
EditRules == part = "rules" /\ RulesNext /\ UNCHANGED <<part, sshVars, cvars, childVars>>
Credentials == part = "credentials" /\ CredNext /\ UNCHANGED <<part, sshVars, ruleVars, childVars>>
Child == part = "child" /\ ChildNext /\ UNCHANGED <<part, sshVars, ruleVars, cvars>>

NativeNext == Forward \/ EditRules \/ Credentials \/ Child
NativeSpec == NativeInit /\ [][NativeNext]_nativeVars
=============================================================================
