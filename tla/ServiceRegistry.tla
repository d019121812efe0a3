--------------------------- MODULE ServiceRegistry ---------------------------
(***************************************************************************)
(* service_manager/service_registry.{h,cpp}: the table of registered       *)
(* service instances and its control-connection index.                     *)
(*                                                                         *)
(* A registry is a record                                                  *)
(*   svc  : services_by_name_, flattened to a map from the logical identity *)
(*          <<name, instance>> to its ServiceEntry                         *)
(*   idx  : fd_to_services_, a map from a control fd to the vector of the  *)
(*          identities registered on it                                    *)
(*   next : next_handle_, an unsigned counter of HandleMod values          *)
(* The operators are the class's methods as functions of such a record, so *)
(* that ServiceManager can use them; this module's own specification calls *)
(* them in every order, from every connection.                             *)
(***************************************************************************)
EXTENDS Integers, Sequences, FiniteSets, StdMap

CONSTANTS Names,      \* valid service names
          BadName,    \* stands for an empty or oversized name
          Insts,      \* instance keys; integers, ordered as the code orders its keys
          Endpoints,  \* (host_id, port): where an instance listens
          Fds,        \* control connection fds
          HandleMod   \* 2^32 in the code: the number of values of a ServiceHandle

ASSUME RegistryAssumption ==
  /\ BadName \notin Names
  /\ Insts \subseteq Int
  /\ Fds \subseteq Nat \ {0}
  /\ HandleMod \in Nat \ {0, 1}

INVALID_HANDLE == 0
NoFd == -1

Ids == Names \X Insts
Infos == [name : Names \cup {BadName}, inst : Insts, ep : Endpoints]
Entry == [ep : Endpoints, handle : 0 .. HandleMod - 1, fd : Fds]

\* ServiceRegistry(): empty tables, handles from 1.
EmptyRegistry == [svc |-> EmptyMap, idx |-> EmptyMap, next |-> 1]

------------------------------------------------------------------------------
(* Methods *)

\* Mutants: the counter does not wrap; 0 is handed out after the wrap.
generateHandleNoWrap(next) == [handle |-> next % HandleMod, next |-> next + 1]
generateHandleZero(next) == [handle |-> next, next |-> (next + 1) % HandleMod]

\* generateHandle: the value handed out, and the counter afterwards.  The
\* counter wraps like the unsigned integer it is, and 0 is skipped.
generateHandle(next) ==
  LET h  == next
      up == (next + 1) % HandleMod
  IN  IF h = INVALID_HANDLE
      THEN [handle |-> up, next |-> (up + 1) % HandleMod]
      ELSE [handle |-> h,  next |-> up]

\* removeFromFdIndex: drop one reference, and the fd's vector with the last one.
removeFromFdIndex(idx, fd, id) ==
  IF fd \notin DOMAIN idx THEN idx
  ELSE LET refs == VecErase(idx[fd], id)
       IN  IF refs = <<>> THEN MapErase(idx, {fd}) ELSE [idx EXCEPT ![fd] = refs]

pushFdIndex(idx, fd, id) == MapPut(idx, fd, Append(MapGet(idx, fd, <<>>), id))

\* Mutant: a take-over leaves the reference under the old fd.
addServiceNoUnindex(r, info, fd) ==
  LET id == <<info.name, info.inst>>
  IN  [reg |-> IF info.name = BadName THEN r
               ELSE [r EXCEPT !.svc = MapPut(@, id, [ep |-> info.ep, handle |-> 1, fd |-> fd]),
                              !.idx = pushFdIndex(removeFromFdIndex(@, fd, id), fd, id)],
       handle |-> IF info.name = BadName THEN INVALID_HANDLE ELSE 1, displaced |-> NoFd]

\* addService: a new identity is inserted under a fresh handle; a known one is
\* taken over by the newer registration, which keeps the handle and moves the
\* fd index.  Returns the registry, the handle and the displaced fd.
addService(r, info, fd) ==
  LET id == <<info.name, info.inst>>
  IN  IF info.name = BadName
      THEN [reg |-> r, handle |-> INVALID_HANDLE, displaced |-> NoFd]
      ELSE IF id \in DOMAIN r.svc
      THEN LET old == r.svc[id]
               svc == [r.svc EXCEPT ![id] =
                         [ep |-> info.ep, handle |-> old.handle, fd |-> fd]]
           IN  IF old.fd = fd
               THEN [reg |-> [r EXCEPT !.svc = svc],
                     handle |-> old.handle, displaced |-> NoFd]
               ELSE [reg |-> [r EXCEPT !.svc = svc,
                                !.idx = pushFdIndex(
                                          removeFromFdIndex(r.idx, old.fd, id), fd, id)],
                     handle |-> old.handle, displaced |-> old.fd]
      ELSE LET g == generateHandle(r.next)
           IN  [reg |-> [svc  |-> MapPut(r.svc, id,
                                    [ep |-> info.ep, handle |-> g.handle, fd |-> fd]),
                         idx  |-> pushFdIndex(r.idx, fd, id),
                         next |-> g.next],
                handle |-> g.handle, displaced |-> NoFd]

\* removeEntryByName, the worker of removeService and removeServiceByIdentity.
removeEntryByName(r, id) ==
  IF id \notin DOMAIN r.svc THEN r
  ELSE [r EXCEPT !.svc = MapErase(r.svc, {id}),
                 !.idx = removeFromFdIndex(r.idx, r.svc[id].fd, id)]

\* Mutant: every instance of the names the fd registered goes.
removeNamesByFd(r, fd) ==
  LET names == {id[1] : id \in Elems(MapGet(r.idx, fd, <<>>))}
  IN  [reg |-> [r EXCEPT !.idx = MapErase(@, {fd}),
                         !.svc = MapErase(@, {id \in DOMAIN @ : id[1] \in names})],
       removed |-> <<>>]

\* removeByFd: take the fd's vector out of the index, then erase every entry it
\* names.  Returns the registry and the identities removed.
removeByFd(r, fd) ==
  IF fd \notin DOMAIN r.idx THEN [reg |-> r, removed |-> <<>>]
  ELSE LET gone == SelectSeq(r.idx[fd], LAMBDA id : id \in DOMAIN r.svc)
       IN  [reg |-> [r EXCEPT !.idx = MapErase(r.idx, {fd}),
                              !.svc = MapErase(r.svc, Elems(r.idx[fd]))],
            removed |-> gone]

\* The instances of a name, as a set; exists, count and the listings read it.
instancesOf(r, name) == {id \in DOMAIN r.svc : id[1] = name}

\* findService, getControlFd: the first instance in key order.
findService(r, name) ==
  CHOOSE id \in instancesOf(r, name) : \A o \in instancesOf(r, name) : id[2] <= o[2]

\* Mutant: the owner is not asked for.
findServiceByNameOnly(r, fd, name) ==
  IF instancesOf(r, name) = {} THEN <<>> ELSE findService(r, name)

\* findServiceByFdAndName: the first reference of the fd's vector with the name
\* whose entry exists; <<>> when there is none.
findServiceByFdAndName(r, fd, name) ==
  LET refs == MapGet(r.idx, fd, <<>>)
      hits == {i \in 1 .. Len(refs) : refs[i][1] = name /\ refs[i] \in DOMAIN r.svc}
  IN  IF hits = {} THEN <<>>
      ELSE refs[CHOOSE i \in hits : \A j \in hits : i <= j]

\* listServiceNamesByFd and ownsService read the fd index only.
listServiceNamesByFd(r, fd) == {id[1] : id \in Elems(MapGet(r.idx, fd, <<>>))}
ownsService(r, fd, name) == name \in listServiceNamesByFd(r, fd)

------------------------------------------------------------------------------
(* The registry on its own *)

VARIABLE registry

Init == registry = EmptyRegistry

AddService(info, fd) == registry' = addService(registry, info, fd).reg

\* removeService(name) removes the first instance of the name, if any.
RemoveService(name) ==
  /\ instancesOf(registry, name) # {}
  /\ registry' = removeEntryByName(registry, findService(registry, name))

RemoveServiceByIdentity(id) == registry' = removeEntryByName(registry, id)

RemoveByFd(fd) == registry' = removeByFd(registry, fd).reg

Next ==
  \/ \E info \in Infos, fd \in Fds : AddService(info, fd)
  \/ \E name \in Names : RemoveService(name)
  \/ \E id \in Ids : RemoveServiceByIdentity(id)
  \/ \E fd \in Fds : RemoveByFd(fd)

Spec == Init /\ [][Next]_registry

------------------------------------------------------------------------------
(* Properties *)

\* A registry holds well-formed maps over the constants.
RegistryTyped(r) ==
  /\ r = [svc |-> r.svc, idx |-> r.idx, next |-> r.next]
  /\ DOMAIN r.svc \subseteq Ids
  /\ \A id \in DOMAIN r.svc : r.svc[id] \in Entry
  /\ DOMAIN r.idx \subseteq Fds
  /\ \A fd \in DOMAIN r.idx : r.idx[fd] \in Seq(Ids)
  /\ r.next \in 0 .. HandleMod - 1

\* The fd index is an exact inverse of the entries' control_fd: it names each
\* entry once, under the fd that entry has now, and holds nothing else -- no
\* reference to a removed or taken-over entry, no empty vector.  This is what
\* lets closeClient use it as "the only authority" on ownership.
IndexExact(r) ==
  /\ \A fd \in DOMAIN r.idx : r.idx[fd] # <<>> /\ Distinct(r.idx[fd])
  /\ \A fd \in DOMAIN r.idx : \A id \in Elems(r.idx[fd]) :
        id \in DOMAIN r.svc /\ r.svc[id].fd = fd
  /\ \A id \in DOMAIN r.svc :
        r.svc[id].fd \in DOMAIN r.idx /\ id \in Elems(r.idx[r.svc[id].fd])

\* No entry carries INVALID_HANDLE, whatever the number of registrations: a
\* client takes a zero handle for a failed registration.
HandlesValid(r) == \A id \in DOMAIN r.svc : r.svc[id].handle # INVALID_HANDLE

TypeOK == RegistryTyped(registry)
FdIndexExact == IndexExact(registry)
HandleNeverInvalid == HandlesValid(registry)

\* No call costs another service its entry: a step removes or rewrites at most
\* one identity, or it is a connection's close, which rewrites nothing and
\* removes exactly the instances registered on that connection.
OthersUntouched ==
  [][ LET gone == DOMAIN registry.svc \ DOMAIN registry'.svc
          kept == DOMAIN registry.svc \ gone
          changed == {id \in kept : registry'.svc[id] # registry.svc[id]}
      IN  \/ \E id \in Ids : gone \cup changed \subseteq {id}
          \/ /\ changed = {}
             /\ \E fd \in Fds : gone = {id \in DOMAIN registry.svc : registry.svc[id].fd = fd}
    ]_registry

\* The header's note on findServiceByFdAndName: "同一 fd 与同一名称至多对应一个实例"
\* (one fd and one name have at most one instance).  addService does not
\* enforce it.
FdNameUnique ==
  \A fd \in Fds, name \in Names :
    Cardinality({id \in instancesOf(registry, name) : registry.svc[id].fd = fd}) <= 1
==============================================================================
