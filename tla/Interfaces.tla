------------------------------ MODULE Interfaces ------------------------------
(***************************************************************************)
(* What the program reads, writes and shows beyond a deletion: the walks   *)
(* that find sessions and the views that group them, the claims made of    *)
(* roots, Claude's settings, a deletion on Windows, and the terminal.      *)
(* These share no state, so a behaviour has one use and leaves the rest in *)
(* its initial state.                                                      *)
(***************************************************************************)
EXTENDS Policy, Configure, WindowsDelete, Discovery, Terminal, RootClaims

CONSTANT Uses   \* subset of {"views", "configure", "windows", "discovery", "terminal", "claims"}

VARIABLE use

sealedVars     == <<rootVars, configureVars, windowsVars>>
interfacesVars == <<policyVars, sealedVars, discoveryVars, terminalVars, claimVars, use>>

\* The types of what a use changes.
InterfacesTypeOK ==
    /\ use \in Uses
    /\ use = "views" => PolicyTypeOK
    /\ use \in {"configure", "windows"} => SealedRootTypeOK /\ ConfigureTypeOK /\ WindowsTypeOK
    /\ use = "discovery" => DiscoveryTypeOK
    /\ use = "terminal" => TerminalTypeOK

\* Where several states are initial, one stands for them in other uses.
InterfacesInit ==
    /\ use \in Uses
    /\ PolicyInit
    /\ SealedRootInit /\ (use \notin {"configure", "windows"} => tree["home"]["claude"].kind = "dir")
    /\ ConfigureInit /\ (use # "configure" => settings["claude"] = NoFile)
    /\ WindowsInit /\ (use # "windows" => place[CHOOSE f \in Objects0 : TRUE] # {})
    /\ DiscoveryInit /\ (use # "discovery" => walker = CHOOSE w \in Walkers : TRUE)
    /\ TerminalInit
    /\ asking \in (IF use = "claims" THEN Questions ELSE {Plain2}) /\ RootClaimsInit

ViewsUse     == use = "views" /\ PolicyNext
ConfigureUse == use = "configure" /\ ConfigureNext /\ UNCHANGED windowsVars
WindowsUse   == use = "windows" /\ WindowsNext /\ UNCHANGED configureVars
DiscoveryUse == use = "discovery" /\ DiscoveryNext
TerminalUse  == use = "terminal" /\ TerminalNext
ClaimsUse    == use = "claims" /\ RootClaimsNext

InterfacesNext ==
    /\ \/ ViewsUse /\ UNCHANGED <<sealedVars, discoveryVars, terminalVars, claimVars>>
       \/ /\ ConfigureUse \/ WindowsUse
          /\ UNCHANGED <<policyVars, discoveryVars, terminalVars, claimVars>>
       \/ DiscoveryUse /\ UNCHANGED <<policyVars, sealedVars, terminalVars, claimVars>>
       \/ TerminalUse /\ UNCHANGED <<policyVars, sealedVars, discoveryVars, claimVars>>
       \/ ClaimsUse /\ UNCHANGED <<policyVars, sealedVars, discoveryVars, terminalVars>>
    /\ UNCHANGED use

InterfacesSpec == InterfacesInit /\ [][InterfacesNext]_interfacesVars

\* ViewsAgree, of the lists that change.
ViewsHold == use = "views" => ViewsAgree
=============================================================================
