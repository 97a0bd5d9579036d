---------------------------- MODULE WalletSession ----------------------------
(* The wallet session of the web application (hooks/useWallet.ts) and the    *)
(* network it is for (context/NetworkContext.tsx, NetworkSwitcher.tsx). An   *)
(* operation that talks to a wallet keeps the target network of the render   *)
(* that started it.                                                          *)
EXTENDS Naturals

CONSTANTS Networks,     \* StellarNetwork
          Default,      \* SWYFT_NETWORK, of the build
          Remembered,   \* networks an earlier visit may have saved
          MaxOperations \* bound: connects, switches and changes in the wallet

Kinds == {"freighter", "xbull"}
None == "none"
NoAddress == [by |-> None, on |-> None]

VARIABLES network,    \* the selected network
          ready,
          savedNetwork, \* localStorage: the network selected before
          savedAddress, \* localStorage: the wallet whose address is kept
          savedKind,  \* localStorage: the kind of wallet to restore with
          address,    \* [by, on]: the wallet and the network it was validated on
          walletKind,
          error,
          connecting,
          loading,
          flows,      \* restores and connects under way
          walletNetwork, \* the network Freighter is on
          operations

sessionVars == <<network, ready, savedNetwork, savedAddress, savedKind, address, walletKind,
                 error, connecting, loading, flows, walletNetwork, operations>>

\* `stored`: the address a restore read when it began.
Flow(op, kind, target, stored) ==
    [op |-> op, kind |-> kind, target |-> target, stored |-> stored, at |-> "access"]

\* A saved kind defaults to Freighter.
Kept(kind) == IF kind = None THEN "freighter" ELSE kind

\* The restore effect: it runs on mount and again whenever the target changes.
Restore(stored, kind, target) ==
    IF stored = None
    THEN loading' = FALSE /\ UNCHANGED flows
    ELSE /\ flows' = flows \cup {Flow("restore", Kept(kind), target, stored)}
         /\ UNCHANGED loading

\* Mounted, with what an earlier visit left in the storage.
SessionInit ==
    /\ network = Default
    /\ ready = FALSE
    /\ savedNetwork \in Remembered \cup {None}
    /\ savedAddress \in Kinds \cup {None}
    /\ savedKind \in Kinds \cup {None}
    /\ savedKind = None => savedAddress = None
    /\ address = NoAddress
    /\ walletKind = "freighter"
    /\ error = None
    /\ connecting = FALSE
    /\ loading = (savedAddress # None)
    /\ flows = IF savedAddress = None THEN {}
               ELSE {Flow("restore", savedKind, Default, savedAddress)}
    /\ walletNetwork \in Networks
    /\ operations = 0

\* The provider above reads the saved network once its children's effects have run.
RestoreNetwork ==
    /\ ~ready
    /\ ready' = TRUE
    /\ network' = IF savedNetwork = None THEN network ELSE savedNetwork
    /\ IF network' = network THEN UNCHANGED <<flows, loading>>
       ELSE Restore(savedAddress, savedKind, network')
    /\ UNCHANGED <<savedNetwork, savedAddress, savedKind, address, walletKind, error,
                   connecting, walletNetwork, operations>>

-----------------------------------------------------------------------------
(* Connecting and restoring *)

\* The buttons of the selector, shown without an address and disabled meanwhile.
Connect(kind) ==
    /\ operations < MaxOperations
    /\ operations' = operations + 1
    /\ ready /\ ~loading /\ ~connecting /\ address = NoAddress
    /\ error' = None
    /\ connecting' = TRUE
    /\ flows' = flows \cup {Flow("connect", kind, network, None)}
    /\ UNCHANGED <<network, ready, savedNetwork, savedAddress, savedKind, address, walletKind,
                   loading, walletNetwork>>

\* The finally block, and the answer the operation leaves in `error`.
End(f, reason) ==
    /\ flows' = flows \ {f}
    /\ loading' = (loading /\ f.op # "restore")
    /\ connecting' = (connecting /\ f.op # "connect")
    /\ error' = reason

\* xBull answers with its address, whose network nobody asks for. A restore takes
\* only the address it read; a connect keeps address and kind.
XbullAnswers(f) ==
    /\ f.kind = "xbull"
    /\ f.op = "restore" => f.stored = "xbull"
    /\ End(f, None)
    /\ address' = [by |-> "xbull", on |-> None]
    /\ walletKind' = "xbull"
    /\ IF f.op = "connect" THEN savedAddress' = "xbull" /\ savedKind' = "xbull"
       ELSE UNCHANGED <<savedAddress, savedKind>>

\* Freighter gives the address; the network is asked for next.
FreighterGrants(f) ==
    /\ f.kind = "freighter" /\ f.at = "access"
    /\ flows' = (flows \ {f}) \cup {[f EXCEPT !.at = "network"]}
    /\ walletKind' = "freighter"
    /\ savedKind' = IF f.op = "connect" THEN "freighter" ELSE savedKind
    /\ UNCHANGED <<address, savedAddress, error, connecting, loading>>

\* A wallet that is missing, refuses or, for a restore, answers with another
\* address: a restore gives up without a word.
Refused(f) ==
    /\ f.at = "access"
    /\ \E reason \in {"NOT_INSTALLED", "REJECTED"} :
        /\ f.kind = "xbull" => reason = "NOT_INSTALLED"
        /\ End(f, IF f.op = "restore" THEN error ELSE reason)
    /\ UNCHANGED <<address, walletKind, savedAddress, savedKind>>

\* validateFreighterNetwork, with the target of the render it was made in.
Validate(f) ==
    /\ f.at = "network"
    /\ UNCHANGED <<walletKind, savedKind>>
    /\ \/ /\ walletNetwork = f.target
          /\ End(f, None)
          /\ address' = [by |-> "freighter", on |-> f.target]
          /\ savedAddress' = "freighter"
       \/ /\ walletNetwork # f.target
          /\ End(f, "WRONG_NETWORK")
          /\ UNCHANGED <<address, savedAddress>>

\* An exception: a restore forgets what was saved, a connect was rejected.
Throws(f) ==
    /\ f.kind = "freighter"
    /\ End(f, IF f.op = "restore" THEN error ELSE "REJECTED")
    /\ IF f.op = "restore" THEN savedAddress' = None /\ savedKind' = None
       ELSE UNCHANGED <<savedAddress, savedKind>>
    /\ UNCHANGED <<address, walletKind>>

FlowStep ==
    /\ ready
    /\ \E f \in flows : XbullAnswers(f) \/ FreighterGrants(f) \/ Refused(f) \/ Validate(f)
                        \/ Throws(f)
    /\ UNCHANGED <<network, ready, savedNetwork, walletNetwork, operations>>

-----------------------------------------------------------------------------
(* The user *)

Disconnect ==
    /\ ~loading /\ address # NoAddress
    /\ address' = NoAddress
    /\ error' = None
    /\ savedAddress' = None
    /\ savedKind' = None
    /\ UNCHANGED <<network, ready, savedNetwork, walletKind, connecting, loading, flows,
                   walletNetwork, operations>>

\* selectNetwork: drops the session there is, then sets and saves the network.
SelectNetwork(next) ==
    /\ operations < MaxOperations
    /\ operations' = operations + 1
    /\ ready /\ next # network
    /\ network' = next
    /\ savedNetwork' = next
    /\ address' = NoAddress
    /\ savedAddress' = IF address = NoAddress THEN savedAddress ELSE None
    /\ savedKind' = IF address = NoAddress THEN savedKind ELSE None
    /\ error' = IF address = NoAddress THEN error ELSE None
    /\ Restore(savedAddress', savedKind', next)
    /\ UNCHANGED <<ready, walletKind, connecting, walletNetwork>>

\* The user picks another network in the extension, which tells nobody.
WalletSwitches ==
    /\ operations < MaxOperations
    /\ operations' = operations + 1
    /\ walletNetwork' \in Networks \ {walletNetwork}
    /\ UNCHANGED <<network, ready, savedNetwork, savedAddress, savedKind, address, walletKind,
                   error, connecting, loading, flows>>

SessionNext ==
    \/ RestoreNetwork
    \/ \E kind \in Kinds : Connect(kind)
    \/ FlowStep
    \/ Disconnect
    \/ \E next \in Networks : SelectNetwork(next)
    \/ WalletSwitches

SessionSpec == SessionInit /\ [][SessionNext]_sessionVars

-----------------------------------------------------------------------------
\* "A wallet session validated against the old network is no longer trustworthy
\* once the app targets a different one" (NetworkSwitcher.tsx 30-32): when nothing
\* is under way, a Freighter session was validated on the network selected. The
\* restore of a page load and a connect under way keep the network they began with.
StaleSessionDropped ==
    flows = {} /\ address.by = "freighter" => address.on = network

=============================================================================
