---------------------------- MODULE McpTransport ----------------------------
(***************************************************************************)
(* https_post of ragleap_integrations._net: one POST by a calling thread,  *)
(* with a watchdog timer in another, over a name service whose answers may *)
(* change at any moment and to a server that may be slow, send too little  *)
(* or break off.  A body is counted in pieces.                             *)
(***************************************************************************)
EXTENDS Naturals

CONSTANTS
    Addresses, PublicAddresses,     \* what a host name can resolve to
    NoAddress,
    BodySizes,                      \* pieces a response may have
    MaxPieces                       \* max_response_bytes, in pieces

ASSUME NetAssumption ==
    /\ PublicAddresses \subseteq Addresses /\ BodySizes \subseteq Nat /\ MaxPieces \in Nat

VARIABLES
    dns,            \* what the name resolves to now
    pinned, peer,   \* the address checked, and the one connected to
    call,           \* the calling thread
    holder,         \* holder["sock"]: none, or the socket, open or shut down
    deadlineHit,    \* the event the watchdog sets
    watchdog,       \* unset, armed, flagged, over
    late,           \* total_timeout has passed
    response,       \* how much the server has to send, how it marks the end
    sent, read      \* pieces on their way, and read

netVars == <<dns, pinned, peer, call, holder, deadlineHit, watchdog, late, response, sent, read>>

NetInit ==
    /\ dns \in SUBSET Addresses /\ pinned = NoAddress /\ peer = NoAddress
    /\ call = "resolve" /\ holder = "none"
    /\ deadlineHit = FALSE /\ watchdog = "unset" /\ late = FALSE
    \* sized: the length is announced; final: the piece after which the caller may stop, 0 for none
    /\ response \in [size : BodySizes, sized : BOOLEAN, final : 0..MaxPieces, open : {TRUE}]
    /\ response.final <= response.size
    /\ sent = 0 /\ read = 0

NameChanges ==
    /\ call \in {"resolve", "connect"}
    /\ dns' \in SUBSET Addresses
    /\ UNCHANGED <<pinned, peer, call, holder, deadlineHit, watchdog, late, response, sent, read>>

----------------------------------------------------------------------------
(* The calling thread. *)

Ended == call \in {"returned", "refused", "deadline", "error", "too_large"}

\* The finally clause: a timer that has not begun is cancelled.
End(how) ==
    /\ call' = how
    /\ watchdog' = IF watchdog = "armed" THEN "over" ELSE watchdog

\* validate_url and resolve_public: every address must be public; one of them is pinned.
Resolve ==
    /\ call = "resolve"
    /\ \/ /\ dns # {} /\ dns \subseteq PublicAddresses
          /\ pinned' \in dns
          /\ call' = "connect" /\ watchdog' = "armed"
       \/ /\ ~(dns # {} /\ dns \subseteq PublicAddresses)
          /\ End("refused") /\ UNCHANGED pinned
    /\ UNCHANGED <<dns, peer, holder, deadlineHit, late, response, sent, read>>

\* As the code would be if the connection were made by name.
AddressByName == dns

\* The connection goes to the address that was checked.
Address == {pinned}

Connect ==
    /\ call = "connect"
    /\ \/ peer' \in Address /\ call' = "wrap" /\ UNCHANGED watchdog
       \/ End("error") /\ UNCHANGED peer
    /\ UNCHANGED <<dns, pinned, holder, deadlineHit, late, response, sent, read>>

WrapSocket ==
    /\ call = "wrap"
    /\ holder' = "open"
    /\ call' = "check"
    /\ UNCHANGED <<dns, pinned, peer, deadlineHit, watchdog, late, response, sent, read>>

\* The watchdog may have run before there was a socket to shut down.
CheckDeadline ==
    /\ call = "check"
    /\ IF deadlineHit THEN End("deadline") ELSE call' = "talk" /\ UNCHANGED watchdog
    /\ UNCHANGED <<dns, pinned, peer, holder, deadlineHit, late, response, sent, read>>

\* The handshake and the request; both fail on a socket that is shut down.
Talk ==
    /\ call = "talk"
    /\ \/ holder = "open" /\ call' = "read" /\ UNCHANGED watchdog
       \/ End(IF deadlineHit THEN "deadline" ELSE "error")
    /\ UNCHANGED <<dns, pinned, peer, holder, deadlineHit, late, response, sent, read>>

ReadPiece ==
    /\ call = "read" /\ holder = "open" /\ read < sent
    /\ read' = read + 1
    /\ IF read' > MaxPieces THEN End("too_large")
       ELSE IF deadlineHit \/ late THEN End("deadline")
       ELSE call' = (IF read' = response.final THEN "stopped" ELSE "read") /\ UNCHANGED watchdog
    /\ UNCHANGED <<dns, pinned, peer, holder, deadlineHit, late, response, sent>>

\* An empty read: the server is done or has broken off, or the socket is shut down, which
\* looks the same.
ReadEnd ==
    /\ call = "read"
    /\ \/ holder = "shut"
       \/ ~response.open /\ read = sent
       \/ sent = response.size /\ read = sent
    /\ call' = "end"
    /\ UNCHANGED <<dns, pinned, peer, holder, deadlineHit, watchdog, late, response, sent, read>>

\* The per-operation timeout, or a broken connection.
ReadFails ==
    /\ call = "read"
    /\ End(IF deadlineHit THEN "deadline" ELSE "error")
    /\ UNCHANGED <<dns, pinned, peer, holder, deadlineHit, late, response, sent, read>>

\* As the code would be without the check after the loop.
DeadlineSeenInLoop == FALSE

\* After a shutdown the read looks like a normal end: the flag tells.
DeadlineSeen == deadlineHit

\* Then, unless the caller stopped the read: fewer bytes than Content-Length promised?
EndOfBody ==
    /\ call \in {"end", "stopped"}
    /\ IF DeadlineSeen THEN End("deadline")
       ELSE IF call = "end" /\ response.sized /\ read < response.size THEN End("error")
       ELSE End("returned")
    /\ UNCHANGED <<dns, pinned, peer, holder, deadlineHit, late, response, sent, read>>

----------------------------------------------------------------------------
(* The watchdog, the clock and the server. *)

TimePasses ==
    /\ ~late /\ late' = TRUE
    /\ UNCHANGED <<dns, pinned, peer, call, holder, deadlineHit, watchdog, response, sent, read>>

\* _kill: the flag first, then the socket, if there is one.
WatchdogFlags ==
    /\ watchdog = "armed" /\ late
    /\ deadlineHit' = TRUE /\ watchdog' = "flagged"
    /\ UNCHANGED <<dns, pinned, peer, call, holder, late, response, sent, read>>

WatchdogShuts ==
    /\ watchdog = "flagged"
    /\ watchdog' = "over"
    /\ holder' = IF holder = "open" THEN "shut" ELSE holder
    /\ UNCHANGED <<dns, pinned, peer, call, deadlineHit, late, response, sent, read>>

ServerSends ==
    /\ call = "read" /\ response.open /\ sent < response.size
    /\ sent' = sent + 1
    /\ UNCHANGED <<dns, pinned, peer, call, holder, deadlineHit, watchdog, late, response, read>>

ServerBreaksOff ==
    /\ call = "read" /\ response.open /\ sent < response.size
    /\ response' = [response EXCEPT !.open = FALSE]
    /\ UNCHANGED <<dns, pinned, peer, call, holder, deadlineHit, watchdog, late, sent, read>>

NetNext ==
    \/ NameChanges \/ Resolve \/ Connect \/ WrapSocket \/ CheckDeadline \/ Talk \/ ReadPiece
    \/ ReadEnd \/ ReadFails \/ EndOfBody \/ TimePasses \/ WatchdogFlags \/ WatchdogShuts
    \/ ServerSends \/ ServerBreaksOff

NetSpec == NetInit /\ [][NetNext]_netVars

----------------------------------------------------------------------------
NetTypeOK ==
    /\ dns \subseteq Addresses /\ {pinned, peer} \subseteq Addresses \cup {NoAddress}
    /\ read <= sent /\ sent <= response.size
    /\ watchdog \in {"unset", "armed", "flagged", "over"} /\ holder \in {"none", "open", "shut"}

\* No connection to an address that is not public, whatever the name resolves to by then.
PeerIsPublic == peer \in PublicAddresses \cup {NoAddress}

\* A response that is returned is whole, or read up to the final event the caller waits for;
\* only one of unknown length from a server that broke off may be short.
ReturnedIsWhole ==
    call = "returned" =>
        \/ read = response.size
        \/ response.final # 0 /\ read = response.final
        \/ ~response.sized /\ ~response.open

\* Once the watchdog is over, a call that is under way has a socket that is shut down: no
\* later read of it can block.
WatchdogBites ==
    deadlineHit /\ watchdog = "over" /\ call \in {"talk", "read", "end", "stopped"} => holder = "shut"

(***************************************************************************)
(* What https_post promises, in every order of the caller's, the           *)
(* watchdog's and the server's steps: the address checked is the one       *)
(* connected to, a cut-off body is never taken for a whole one, and the    *)
(* deadline ends the call also when it falls before there is a socket.     *)
(***************************************************************************)
TransportKeepsItsWord == PeerIsPublic /\ ReturnedIsWhole /\ WatchdogBites
============================================================================
