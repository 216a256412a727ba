----------------------------- MODULE OciClient -----------------------------
(***************************************************************************)
(* The reads of src/app/oci_client.py for one profile.  A method runs in a *)
(* worker thread as one or more calls of the OCI SDK, between which OCI    *)
(* changes; a call of the SDK is one step, at the moment of its answer.    *)
(* Updates are handled one at a time, so there is one such thread at most. *)
(* instance_action is in module Bot.                                       *)
(***************************************************************************)
EXTENDS Naturals, FiniteSets, SequencesExt

CONSTANTS
  Domains,      \* the tenancy's availability domains, a sequence
  Resources,    \* instances, volumes or security lists there may be
  DomainOf,     \* the domain a resource is in
  Vnics,        \* VNICs the instance asked about may have
  Primary,      \* those that are primary
  NoCache, NoVnic, Compartment,
  OciFaults     \* "service": a ServiceError; "other": any other exception

ASSUME DomainsAssumption ==
  /\ Domains \in Seq(Range(Domains)) /\ IsInjective(Domains)
  /\ DomainOf \in [Resources -> Range(Domains)]
ASSUME FiniteAssumption == IsFiniteSet(Resources) /\ IsFiniteSet(Vnics)
ASSUME MarkersAssumption == NoVnic \notin Vnics /\ Compartment \notin Range(Domains)

VARIABLES
  ads_cache,  \* the bundle's cache of list_availability_domains
  existing,   \* OCI: the resources there are
  attached,   \* OCI: the VNICs in state ATTACHED
  call        \* the client's method that runs

ociVars == <<existing, attached>>
clientVars == <<ads_cache, ociVars, call>>

\* todo: what is left to ask the SDK for; got: what was collected; vnic: the
\* VNIC chosen so far.  always and ever are history, see ListingService.
NoCall ==
  [op |-> "none", step |-> "idle", todo |-> <<>>, got |-> <<>>, vnic |-> NoVnic,
   always |-> {}, ever |-> {}]

Ended == {"idle", "done", "failed", "raised"}

ClientInit ==
  /\ ads_cache = NoCache
  /\ existing \in SUBSET Resources
  /\ attached \in SUBSET Vnics
  /\ call = NoCall

-----------------------------------------------------------------------------
(* A call *)

\* list_instances, list_security_lists; list_boot_volumes; get_ip_info;
\* list_limit_values.
FirstStep ==
  [list |-> "pages", volumes |-> "domains", vnics |-> "attachments", limits |-> "limits"]

\* All but list_boot_volumes ask once, for the whole compartment.
Begin(op) ==
  /\ call.step = "idle"
  /\ call' = [NoCall EXCEPT !.op = op, !.step = FirstStep[op],
                            !.todo = IF op = "list" THEN <<Compartment>> ELSE <<>>,
                            !.always = existing, !.ever = existing]
  /\ UNCHANGED <<ads_cache, ociVars>>

\* _availability_domains_locked.
GetDomains ==
  /\ call.step = "domains"
  /\ ads_cache' = IF ads_cache = NoCache THEN Domains ELSE ads_cache
  /\ call' = [call EXCEPT !.step = "pages", !.todo = ads_cache']
  /\ UNCHANGED ociVars

Within(d) == IF d = Compartment THEN existing ELSE {r \in existing : DomainOf[r] = d}

\* The loop of _list_boot_volumes_sync, and the one call of the other lists.
GetPage ==
  /\ call.step = "pages" /\ call.todo # <<>>
  /\ call' = [call EXCEPT !.todo = Tail(@), !.got = @ \o SetToSeq(Within(Head(call.todo)))]
  /\ UNCHANGED <<ads_cache, ociVars>>

\* list_vnic_attachments, in any order; those not ATTACHED are passed over.
GetAttachments ==
  /\ call.step = "attachments"
  /\ \E s \in SetToSeqs(attached) :
       call' = [call EXCEPT !.step = "vnics", !.todo = s, !.got = s]
  /\ UNCHANGED <<ads_cache, ociVars>>

\* No break at the primary VNIC (for the checks of the properties).
GetVnicToTheLast ==
  /\ call.step = "vnics" /\ call.todo # <<>> /\ Head(call.todo) \in attached
  /\ call' = [call EXCEPT !.todo = Tail(@), !.vnic = Head(call.todo)]
  /\ UNCHANGED <<ads_cache, ociVars>>

\* get_vnic: the first one, until the primary one ends the loop.
GetVnic ==
  /\ call.step = "vnics" /\ call.todo # <<>> /\ Head(call.todo) \in attached
  /\ LET v == Head(call.todo)
     IN call' = [call EXCEPT !.todo = IF v \in Primary THEN <<>> ELSE Tail(@),
                             !.vnic = IF v \in Primary \/ @ = NoVnic THEN v ELSE @]
  /\ UNCHANGED <<ads_cache, ociVars>>

Return ==
  /\ call.step \in {"pages", "vnics", "limits"} /\ call.todo = <<>>
  /\ call' = [call EXCEPT !.step = "done"]
  /\ UNCHANGED <<ads_cache, ociVars>>

Asking ==
  \/ call.step = "domains" /\ ads_cache = NoCache
  \/ call.step \in {"attachments", "limits"}
  \/ call.step \in {"pages", "vnics"} /\ call.todo # <<>>

Detached == call.step = "vnics" /\ call.todo # <<>> /\ Head(call.todo) \notin attached

\* A domain whose volumes cannot be listed is passed over, and so are the domains
\* (for the checks of the properties).
FailsInPart ==
  /\ Asking /\ "service" \in OciFaults
  /\ call' = [call EXCEPT !.step = IF @ = "pages" THEN "done" ELSE "failed"]
  /\ UNCHANGED <<ads_cache, ociVars>>

\* A failed fetch of the domains is remembered as no domains (for the checks of
\* the properties).
FailsRemembered ==
  /\ Asking /\ "service" \in OciFaults
  /\ ads_cache' = IF call.step = "domains" THEN <<>> ELSE ads_cache
  /\ call' = [call EXCEPT !.step = "failed"]
  /\ UNCHANGED ociVars

\* A ServiceError becomes an OciApiError and whatever was collected is dropped;
\* a VNIC that was detached meanwhile is one.  Nothing else is caught.
Fails ==
  /\ Asking
  /\ \/ ("service" \in OciFaults \/ Detached) /\ call' = [call EXCEPT !.step = "failed"]
     \/ "other" \in OciFaults /\ call' = [call EXCEPT !.step = "raised"]
  /\ UNCHANGED <<ads_cache, ociVars>>

Working == GetDomains \/ GetPage \/ GetAttachments \/ GetVnic \/ Return \/ Fails

\* The coroutine that awaits the thread goes on.
Taken == call.step \in Ended \ {"idle"} /\ call' = NoCall /\ UNCHANGED <<ads_cache, ociVars>>

-----------------------------------------------------------------------------
(* OCI *)

ResourcesChange ==
  \E r \in Resources :
    /\ existing' = IF r \in existing THEN existing \ {r} ELSE existing \cup {r}
    /\ call' = IF call.step \in Ended THEN call
               ELSE [call EXCEPT !.always = @ \cap existing', !.ever = @ \cup existing']
    /\ UNCHANGED <<ads_cache, attached>>

VnicsChange ==
  \E v \in Vnics :
    /\ attached' = IF v \in attached THEN attached \ {v} ELSE attached \cup {v}
    /\ UNCHANGED <<ads_cache, existing, call>>

\* Any method after any other.
ClientNext ==
  \/ \E op \in DOMAIN FirstStep : Begin(op)
  \/ Working \/ Taken
  \/ ResourcesChange \/ VnicsChange

ClientSpec == ClientInit /\ [][ClientNext]_clientVars

-----------------------------------------------------------------------------
(* Properties *)

\* get_ip_info reports the primary VNIC if one was attached when it listed the
\* attachments, else the first one, else none; a VNIC that goes away under it is
\* an error and not a row about another one (oci_client.py:189-199).
PrimaryReported ==
  call.op = "vnics" /\ call.step = "done" =>
    LET primaries == Range(call.got) \cap Primary
    IN IF call.got = <<>> THEN call.vnic = NoVnic
       ELSE IF primaries = {} THEN call.vnic = call.got[1]
       ELSE call.vnic \in primaries

AbstractState == [done |-> "answered", failed |-> "refused", raised |-> "refused"]

Listing ==
  IF call.op \notin {"list", "volumes"}
  THEN [state |-> "none", always |-> {}, ever |-> {}, items |-> <<>>]
  ELSE [state |-> IF call.step \in DOMAIN AbstractState THEN AbstractState[call.step] ELSE "asked",
        always |-> call.always, ever |-> call.ever,
        items |-> IF call.step = "done" THEN call.got ELSE <<>>]

Service == INSTANCE ListingService WITH listing <- Listing

\* The listings are as ListingService says: boot volumes are collected domain by
\* domain, from a cache of domains that any earlier call filled, and yet none that
\* was there all the time is missing and none is there twice; a call that fails
\* half-way refuses (oci_client.py:251-263, 280-287).
ImplementsService == Service!ServiceSpec
=============================================================================
