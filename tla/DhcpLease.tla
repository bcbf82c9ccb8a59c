----------------------------- MODULE DhcpLease ------------------------------
(***************************************************************************)
(* The lease array of one block: the helpers at the end of dhcp.c that     *)
(* count, pick, release and expire leases.                                 *)
(***************************************************************************)
EXTENDS DdhcpTypes

\* A lease as calloc and block_alloc leave it: free, its end in 1970.
UnusedLease == [state |-> "FREE", chaddr |-> NoClient, xid |-> NoXid,
                lease_end |-> Expired]

UnusedLeases == [i \in LeaseIndices |-> UnusedLease]

dhcp_free_leases(blk) == {i \in LeaseIndices : blk.leases[i].state = "FREE"}

dhcp_has_free(blk) == dhcp_free_leases(blk) # {}

dhcp_num_free(blk) == Cardinality(dhcp_free_leases(blk))

\* The first free lease of the block, as a set of at most one index.
dhcp_get_free_lease(blk) ==
  {i \in dhcp_free_leases(blk) : \A j \in dhcp_free_leases(blk) : i <= j}

\* _dhcp_release_lease: forget the client, keep the old end of the lease.
ReleaseLease(lease) ==
  [lease EXCEPT !.state = "FREE", !.chaddr = NoClient, !.xid = NoXid]

LeaseExpired(lease) == lease.state # "FREE" /\ lease.lease_end < 0

\* Release every lease whose end has passed.  The number of free leases the
\* function returns is dhcp_num_free of the result.
dhcp_check_timeouts(blk) ==
  [blk EXCEPT !.leases =
     [i \in LeaseIndices |-> IF LeaseExpired(@[i]) THEN ReleaseLease(@[i])
                                                   ELSE @[i]]]
=============================================================================
