----------------------------- MODULE HubProofs -----------------------------
(***************************************************************************)
(* Theorems about module Hub, for any finite set of connections and any    *)
(* rooms.  The first part counts what each room's reference count stands   *)
(* for.  The second, with a client that names a board at most once on a    *)
(* connection, follows one connection to its end.                          *)
(***************************************************************************)
EXTENDS Hub, FiniteSetTheorems, TLAPS

USE DEF Proc, Role, Goto, Tell, Owner, AfterLeave

LEMMA InitTyped == Init => TypeOK
<1>1. (CHOOSE r \in Room : TRUE) \in Room
  BY RoomNonEmpty
<1>2. ASSUME Init
      PROVE  pc \in [Proc -> PC] /\ at \in [Proc -> Room] /\ todo \in [Proc -> SUBSET Room]
  BY <1>1, <1>2 DEF Init, PC
<1>3. ASSUME Init
      PROVE  /\ rooms \in [Room -> SUBSET Conn]
             /\ subs \in [Room -> Nat]
             /\ held \in [Conn -> SUBSET Room]
             /\ told \in [Conn -> [Room -> {"none", "subscribed", "unsubscribed"}]]
             /\ named \in [Conn -> SUBSET Room]
             /\ grants \in 0..Regrants
  BY <1>3, RegrantsNat DEF Init
<1>4. QED
  BY <1>2, <1>3 DEF Init, TypeOK

LEMMA ServeTyped ==
  ASSUME TypeOK, NEW c \in Conn, ServeNext(c)
  PROVE  TypeOK'
<1>1. CASE Register(c)
  <2>1. CASE closing
    <3>1. /\ pc' = [pc EXCEPT ![<<c, "serve">>] = "finished"]
          /\ UNCHANGED <<closing, conns, rooms, subs, subMu, channels, held, closed,
                         told, access, named, grants, shut, live, at, todo>>
      BY <1>1, <2>1 DEF Register, connVars, envVars, shutVars
    <3>2. QED
      BY <3>1 DEF TypeOK, PC
  <2>2. CASE ~closing
    <3>1. pc' = [pc EXCEPT ![<<c, "serve">>] = "serving",
                           ![<<c, "read">>]  = "reading",
                           ![<<c, "maint">>] = "idle"]
      BY <1>1, <2>2 DEF Register
    <3>2. pc' \in [Proc -> PC]
      BY <3>1 DEF TypeOK, PC
    <3>3. QED
      BY <1>1, <2>2, <3>2 DEF TypeOK, Register, connVars, envVars, shutVars
  <2>3. QED
    BY <2>1, <2>2
<1>2. CASE BeginRemove(c)
  BY <1>2 DEF TypeOK, BeginRemove, hubVars, connVars, envVars, shutVars, PC
<1>3. CASE EndRemove(c)
  BY <1>3 DEF TypeOK, EndRemove, envVars, shutVars, PC
<1>4. ASSUME NEW r \in Room, RemoveNext(c, r)
      PROVE  TypeOK'
  BY <1>4 DEF TypeOK, RemoveNext, hubVars, connVars, envVars, shutVars, PC
<1>5. QED
  BY <1>1, <1>2, <1>3, <1>4 DEF ServeNext

LEMMA ReadTyped ==
  ASSUME TypeOK, NEW c \in Conn, ReadNext(c)
  PROVE  TypeOK'
<1>1. ASSUME NEW r \in Room, ReadSubscribe(c, r)
      PROVE  TypeOK'
  <2>1. /\ named' \in [Conn -> SUBSET Room]
        /\ UNCHANGED <<closing, conns, rooms, subs, subMu, channels, held, closed,
                       access, grants, shut, live, todo>>
    BY <1>1 DEF TypeOK, ReadSubscribe, hubVars, shutVars
  <2>2. CASE r \in held[c]
    <3>1. told' = IF c \in closed THEN told ELSE [told EXCEPT ![c][r] = "subscribed"]
      BY <1>1, <2>2 DEF ReadSubscribe
    <3>2. UNCHANGED <<pc, at>>
      BY <1>1, <2>2 DEF ReadSubscribe
    <3>3. told' \in [Conn -> [Room -> {"none", "subscribed", "unsubscribed"}]]
      BY <3>1 DEF TypeOK
    <3>4. QED
      BY <2>1, <3>2, <3>3 DEF TypeOK
  <2>3. CASE r \notin held[c]
    BY <1>1, <2>1, <2>3 DEF TypeOK, ReadSubscribe, PC
  <2>4. QED
    BY <2>2, <2>3
<1>2. ASSUME NEW r \in Room, ReadUnsubscribe(c, r)
      PROVE  TypeOK'
  BY <1>2 DEF TypeOK, ReadUnsubscribe, hubVars, connVars, envVars, shutVars, PC
<1>3. CASE SubscribeAllowed(c)
  BY <1>3 DEF TypeOK, SubscribeAllowed, hubVars, connVars, envVars, shutVars, PC
<1>4. CASE SubscribeRefused(c)
  BY <1>4 DEF TypeOK, SubscribeRefused, hubVars, connVars, envVars, shutVars, PC
<1>5. CASE JoinCheck(c)
  BY <1>5 DEF TypeOK, JoinCheck, hubVars, connVars, envVars, shutVars, PC
<1>6. CASE JoinCounted(c)
  BY <1>6 DEF TypeOK, JoinCounted, connVars, envVars, shutVars, PC
<1>7. CASE JoinFirst(c)
  <2>1. CASE shut = "stopped"
    BY <1>7, <2>1 DEF TypeOK, JoinFirst, connVars, envVars, shutVars, PC
  <2>2. CASE shut # "stopped"
    <3>1. /\ subMu' = <<c, "read">>
          /\ channels' = channels \cup {at[<<c, "read">>]}
          /\ pc' = [pc EXCEPT ![<<c, "read">>] = "joinAck"]
          /\ UNCHANGED <<closing, conns, rooms, subs, held, closed, told, access,
                         named, grants, shut, live, at, todo>>
      BY <1>7, <2>2 DEF JoinFirst, connVars, envVars, shutVars
    <3>2. channels' \in SUBSET Room
      BY <3>1 DEF TypeOK
    <3>3. pc' \in [Proc -> PC]
      BY <3>1 DEF TypeOK, PC
    <3>4. QED
      BY <3>1, <3>2, <3>3 DEF TypeOK
  <2>3. QED
    BY <2>1, <2>2
<1>8. CASE JoinAck(c)
  BY <1>8 DEF TypeOK, JoinAck, connVars, envVars, shutVars, PC
<1>9. CASE JoinFail(c)
  BY <1>9 DEF TypeOK, JoinFail, connVars, envVars, shutVars, PC
<1>10. CASE JoinAdd(c)
  BY <1>10 DEF TypeOK, JoinAdd, connVars, envVars, shutVars, PC
<1>11. CASE RememberRoom(c)
  BY <1>11 DEF TypeOK, RememberRoom, hubVars, envVars, shutVars, PC
<1>12. CASE Acknowledge(c)
  BY <1>12 DEF TypeOK, Acknowledge, hubVars, envVars, shutVars, PC
<1>13. CASE ReadEnd(c)
  BY <1>13 DEF TypeOK, ReadEnd, hubVars, envVars, shutVars, PC
<1>14. QED
  BY <1>1, <1>2, <1>3, <1>4, <1>5, <1>6, <1>7, <1>8, <1>9, <1>10, <1>11,
     <1>12, <1>13 DEF ReadNext

LEMMA MaintTyped ==
  ASSUME TypeOK, NEW c \in Conn, MaintNext(c)
  PROVE  TypeOK'
<1>1. CASE MaintainClose(c)
  BY <1>1 DEF TypeOK, MaintainClose, hubVars, envVars, shutVars, PC
<1>2. CASE MaintainEnd(c)
  BY <1>2 DEF TypeOK, MaintainEnd, hubVars, connVars, envVars, shutVars, PC
<1>3. CASE Reauthorize(c)
  BY <1>3 DEF TypeOK, Reauthorize, hubVars, connVars, envVars, shutVars, PC
<1>4. CASE SweepEnd(c)
  BY <1>4 DEF TypeOK, SweepEnd, hubVars, connVars, envVars, shutVars, PC
<1>5. ASSUME NEW r \in Room, SweepKeep(c, r)
      PROVE  TypeOK'
  BY <1>5 DEF TypeOK, SweepKeep, hubVars, connVars, envVars, shutVars, PC
<1>6. ASSUME NEW r \in Room, SweepRevoke(c, r)
      PROVE  TypeOK'
  BY <1>6 DEF TypeOK, SweepRevoke, hubVars, connVars, envVars, shutVars, PC
<1>7. QED
  BY <1>1, <1>2, <1>3, <1>4, <1>5, <1>6 DEF MaintNext

LEMMA LeaveTyped ==
  ASSUME TypeOK, NEW p \in Proc, LeaveNext(p)
  PROVE  TypeOK'
<1>1. CASE Leave(p)
  BY <1>1 DEF TypeOK, Leave, connVars, envVars, shutVars, PC
<1>2. CASE Release(p)
  BY <1>2 DEF TypeOK, Release, connVars, envVars, shutVars, PC
<1>3. CASE Unsubscribe(p)
  BY <1>3 DEF TypeOK, Unsubscribe, connVars, envVars, shutVars, PC
<1>4. CASE ForgetRoom(p)
  BY <1>4 DEF TypeOK, ForgetRoom, hubVars, envVars, shutVars, PC
<1>5. CASE TellUnsubscribed(p)
  BY <1>5 DEF TypeOK, TellUnsubscribed, hubVars, envVars, shutVars, PC
<1>6. QED
  BY <1>1, <1>2, <1>3, <1>4, <1>5 DEF LeaveNext

LEMMA OtherTyped ==
  ASSUME TypeOK,
         \/ ShutdownNext
         \/ \E c \in Conn : CloseConn(c) \/ Environment(c)
  PROVE  TypeOK'
<1>1. CASE ShutdownNext
  BY <1>1 DEF TypeOK, ShutdownNext, ShutdownBegin, ShutdownClose, ShutdownStop,
     hubVars, connVars, envVars, procVars
<1>2. ASSUME NEW c \in Conn, CloseConn(c)
      PROVE  TypeOK'
  BY <1>2 DEF TypeOK, CloseConn, hubVars, envVars, shutVars, procVars
<1>3. ASSUME NEW c \in Conn, NEW r \in Room, Revoke(c, r)
      PROVE  TypeOK'
  BY <1>3 DEF TypeOK, Revoke, hubVars, connVars, shutVars, procVars
<1>4. ASSUME NEW c \in Conn, NEW r \in Room, Grant(c, r)
      PROVE  TypeOK'
  BY <1>4, RegrantsNat DEF TypeOK, Grant, hubVars, connVars, shutVars, procVars
<1>5. QED
  BY <1>1, <1>2, <1>3, <1>4 DEF Environment

LEMMA NextTyped == TypeOK /\ [Next]_vars => TypeOK'
<1> SUFFICES ASSUME TypeOK, [Next]_vars PROVE TypeOK'
  OBVIOUS
<1>1. CASE UNCHANGED vars
  BY <1>1 DEF vars, TypeOK
<1>2. CASE Next
  BY <1>2, ServeTyped, ReadTyped, MaintTyped, LeaveTyped, OtherTyped DEF Next
<1>3. QED
  BY <1>1, <1>2

\* Every variable of the hub keeps its type under every interleaving.
THEOREM HubTypeOK == Spec => []TypeOK
  BY InitTyped, NextTyped, PTL DEF Spec

-----------------------------------------------------------------------------
(* References. *)

LEMMA RefsFinite ==
  ASSUME TypeOK, NEW r \in Room
  PROVE  IsFiniteSet(Refs(r))
<1>1. IsFiniteSet({"serve", "read", "maint", "room"})
  <2>1. IsFiniteSet({"serve"}) /\ IsFiniteSet({"read"}) /\ IsFiniteSet({"maint"})
        /\ IsFiniteSet({"room"})
    BY FS_Singleton
  <2>2. IsFiniteSet({"serve"} \cup {"read"}) /\ IsFiniteSet({"maint"} \cup {"room"})
    BY <2>1, FS_Union
  <2>3. IsFiniteSet(({"serve"} \cup {"read"}) \cup ({"maint"} \cup {"room"}))
    BY <2>2, FS_Union
  <2>4. {"serve", "read", "maint", "room"}
          = ({"serve"} \cup {"read"}) \cup ({"maint"} \cup {"room"})
    OBVIOUS
  <2>5. QED
    BY <2>3, <2>4
<1>2. IsFiniteSet(Conn \X {"serve", "read", "maint", "room"})
  BY <1>1, ConnFinite, FS_Product
<1>3. Refs(r) \subseteq Conn \X {"serve", "read", "maint", "room"}
  BY DEF Refs, TypeOK
<1>4. QED
  BY <1>2, <1>3, FS_Subset

(* A step that moves no membership, no count and no carried reference. *)
Quiet ==
  /\ rooms' = rooms
  /\ subs' = subs
  /\ \A p \in Proc, r \in Room : Carries(p, r)' <=> Carries(p, r)

LEMMA QuietKeeps ==
  ASSUME RefsCovered, Quiet
  PROVE  RefsCovered'
<1> SUFFICES ASSUME NEW r \in Room
             PROVE  Cardinality(Refs(r))' <= subs'[r]
  BY DEF RefsCovered
<1>1. Refs(r)' = Refs(r)
  BY DEF Quiet, Refs
<1>2. QED
  BY <1>1 DEF Quiet, RefsCovered

(* A goroutine's own pc and at change; it carries nothing before or after. *)
LEMMA EmptyHanded ==
  ASSUME TypeOK, NEW p \in Proc, NEW label \in PC \ {"joinAdd", "release"},
         pc[p] \notin {"joinAdd", "release"},
         pc' = [pc EXCEPT ![p] = label],
         \A q \in Proc : q # p => at'[q] = at[q],
         UNCHANGED <<rooms, subs>>
  PROVE  Quiet
  BY DEF TypeOK, Quiet, Carries

(* readPump and maintain do not exist before register has returned. *)
Unstarted ==
  \A c \in Conn : pc[<<c, "serve">>] = "new" =>
      pc[<<c, "read">>] = "off" /\ pc[<<c, "maint">>] = "off"

LEMMA StartedStays ==
  ASSUME TypeOK, Unstarted, NEW p \in Proc, NEW label \in PC \ {"new"},
         pc[p] # "off", pc' = [pc EXCEPT ![p] = label]
  PROVE  Unstarted'
  BY DEF TypeOK, Unstarted

RefInv == TypeOK /\ Unstarted /\ RefsCovered

LEMMA ServeRefs ==
  ASSUME RefInv, NEW c \in Conn, ServeNext(c)
  PROVE  Quiet /\ Unstarted'
<1> USE DEF RefInv
<1>1. CASE Register(c)
  <2>1. pc[<<c, "serve">>] = "new" /\ pc[<<c, "read">>] = "off"
        /\ pc[<<c, "maint">>] = "off"
    BY <1>1 DEF Register, Unstarted
  <2>2. CASE closing
    <3>1. pc' = [pc EXCEPT ![<<c, "serve">>] = "finished"] /\ UNCHANGED <<rooms, subs, at>>
      BY <1>1, <2>2 DEF Register
    <3>2. QED
      BY <2>1, <3>1, EmptyHanded, StartedStays DEF PC
  <2>3. CASE ~closing
    <3>1. /\ pc' = [pc EXCEPT ![<<c, "serve">>] = "serving",
                              ![<<c, "read">>]  = "reading",
                              ![<<c, "maint">>] = "idle"]
          /\ UNCHANGED <<rooms, subs, at>>
      BY <1>1, <2>3 DEF Register
    <3>2. \A q \in Proc : q \notin {<<c, "serve">>, <<c, "read">>, <<c, "maint">>}
            => pc'[q] = pc[q]
      BY <3>1 DEF TypeOK
    <3>3. pc'[<<c, "serve">>] = "serving" /\ pc'[<<c, "read">>] = "reading"
          /\ pc'[<<c, "maint">>] = "idle"
      BY <3>1 DEF TypeOK
    <3>4. Quiet
      BY <2>1, <3>1, <3>2, <3>3 DEF Quiet, Carries
    <3>5. Unstarted'
      BY <2>1, <3>2, <3>3 DEF Unstarted
    <3>6. QED
      BY <3>4, <3>5
  <2>4. QED
    BY <2>2, <2>3
<1>2. CASE BeginRemove(c)
  BY <1>2, EmptyHanded, StartedStays DEF BeginRemove, hubVars, PC
<1>3. CASE EndRemove(c)
  BY <1>3, EmptyHanded, StartedStays DEF EndRemove, PC
<1>4. ASSUME NEW r \in Room, RemoveNext(c, r)
      PROVE  Quiet /\ Unstarted'
  BY <1>4, EmptyHanded, StartedStays DEF TypeOK, RemoveNext, hubVars, PC
<1>5. QED
  BY <1>1, <1>2, <1>3, <1>4 DEF ServeNext

LEMMA MaintRefs ==
  ASSUME RefInv, NEW c \in Conn, MaintNext(c)
  PROVE  Quiet /\ Unstarted'
<1> USE DEF RefInv
<1>1. CASE MaintainClose(c)
  BY <1>1, EmptyHanded, StartedStays DEF MaintainClose, hubVars, PC
<1>2. CASE MaintainEnd(c)
  BY <1>2, EmptyHanded, StartedStays DEF MaintainEnd, hubVars, PC
<1>3. CASE Reauthorize(c)
  BY <1>3, EmptyHanded, StartedStays DEF Reauthorize, hubVars, PC
<1>4. CASE SweepEnd(c)
  BY <1>4, EmptyHanded, StartedStays DEF SweepEnd, hubVars, PC
<1>5. ASSUME NEW r \in Room, SweepKeep(c, r)
      PROVE  Quiet /\ Unstarted'
  BY <1>5 DEF SweepKeep, hubVars, Quiet, Carries, Unstarted
<1>6. ASSUME NEW r \in Room, SweepRevoke(c, r)
      PROVE  Quiet /\ Unstarted'
  BY <1>6, EmptyHanded, StartedStays DEF TypeOK, SweepRevoke, hubVars, PC
<1>7. QED
  BY <1>1, <1>2, <1>3, <1>4, <1>5, <1>6 DEF MaintNext

LEMMA OtherRefs ==
  ASSUME RefInv,
         \/ ShutdownNext
         \/ \E c \in Conn : CloseConn(c) \/ Environment(c)
  PROVE  Quiet /\ Unstarted'
<1>1. UNCHANGED <<rooms, subs, pc, at>>
  BY DEF ShutdownNext, ShutdownBegin, ShutdownClose, ShutdownStop, CloseConn,
     Environment, Revoke, Grant, hubVars, procVars
<1>2. QED
  BY <1>1 DEF RefInv, Quiet, Carries, Unstarted

(* A join counts itself in: one more reference, one more count. *)
LEMMA CountIn ==
  ASSUME RefInv, NEW p \in Proc,
         pc[p] \notin {"joinAdd", "release"},
         pc' = [pc EXCEPT ![p] = "joinAdd"],
         subs' = [subs EXCEPT ![at[p]] = @ + 1],
         UNCHANGED <<rooms, at>>
  PROVE  RefsCovered'
<1> USE DEF RefInv
<1> SUFFICES ASSUME NEW r \in Room
             PROVE  Cardinality(Refs(r))' <= subs'[r]
  BY DEF RefsCovered
<1>1. \A q \in Proc : Carries(q, r)' <=> Carries(q, r) \/ (q = p /\ at[p] = r)
  BY DEF TypeOK, Carries
<1>2. IsFiniteSet(Refs(r)) /\ Cardinality(Refs(r)) \in Nat
  BY RefsFinite, FS_CardinalityType
<1>3. Cardinality(Refs(r)) <= subs[r] /\ subs[r] \in Nat
  BY DEF RefsCovered, TypeOK
<1>4. CASE at[p] = r
  <2>1. Refs(r)' = Refs(r) \cup {p}
    BY <1>1, <1>4 DEF Refs
  <2>2. Cardinality(Refs(r) \cup {p}) \in {Cardinality(Refs(r)), Cardinality(Refs(r)) + 1}
    BY <1>2, FS_AddElement
  <2>3. subs'[r] = subs[r] + 1
    BY <1>4 DEF TypeOK
  <2>4. QED
    BY <1>2, <1>3, <2>1, <2>2, <2>3
<1>5. CASE at[p] # r
  <2>1. Refs(r)' = Refs(r)
    BY <1>1, <1>5 DEF Refs
  <2>2. subs'[r] = subs[r]
    BY <1>5 DEF TypeOK
  <2>3. QED
    BY <1>3, <2>1, <2>2
<1>6. QED
  BY <1>4, <1>5

(* The reference a goroutine carried becomes a membership. *)
LEMMA MoveIn ==
  ASSUME RefInv, NEW c \in Conn, NEW p \in Proc, p[1] = c,
         pc[p] = "joinAdd",
         pc' = [pc EXCEPT ![p] = "remember"],
         rooms' = [rooms EXCEPT ![at[p]] = @ \cup {c}],
         UNCHANGED <<subs, at>>
  PROVE  RefsCovered'
<1> USE DEF RefInv
<1> SUFFICES ASSUME NEW r \in Room
             PROVE  Cardinality(Refs(r))' <= subs[r]
  BY DEF RefsCovered
<1>1. \A q \in Proc : Carries(q, r)' <=> Carries(q, r) /\ q # p
  BY DEF TypeOK, Carries
<1>2. IsFiniteSet(Refs(r)) /\ Cardinality(Refs(r)) \in Nat
  BY RefsFinite, FS_CardinalityType
<1>3. Cardinality(Refs(r)) <= subs[r] /\ subs[r] \in Nat
  BY DEF RefsCovered, TypeOK
<1>4. CASE at[p] = r
  <2>1. rooms'[r] = rooms[r] \cup {c}
    BY <1>4 DEF TypeOK
  <2>2. p \notin {<<d, "room">> : d \in rooms[r] \cup {c}}
    OBVIOUS
  <2>3. Refs(r)' = (Refs(r) \ {p}) \cup {<<c, "room">>}
    BY <1>1, <2>1, <2>2 DEF Refs
  <2>4. p \in Refs(r)
    BY <1>4 DEF Refs, Carries
  <2>5. IsFiniteSet(Refs(r) \ {p})
        /\ Cardinality(Refs(r) \ {p}) = Cardinality(Refs(r)) - 1
    BY <1>2, <2>4, FS_RemoveElement
  <2>6. Cardinality((Refs(r) \ {p}) \cup {<<c, "room">>})
          \in {Cardinality(Refs(r) \ {p}), Cardinality(Refs(r) \ {p}) + 1}
    BY <2>5, FS_AddElement
  <2>7. QED
    BY <1>2, <1>3, <2>3, <2>5, <2>6
<1>5. CASE at[p] # r
  <2>1. rooms'[r] = rooms[r]
    BY <1>5 DEF TypeOK
  <2>2. \A q \in Proc : Carries(q, r)' <=> Carries(q, r)
    BY <1>1, <1>5 DEF Carries
  <2>3. Refs(r)' = Refs(r)
    BY <2>1, <2>2 DEF Refs
  <2>4. QED
    BY <1>3, <2>3
<1>6. QED
  BY <1>4, <1>5

(* A membership becomes the reference its leaver carries. *)
LEMMA MoveOut ==
  ASSUME RefInv, NEW c \in Conn, NEW p \in Proc, p[1] = c,
         pc[p] = "leave", c \in rooms[at[p]],
         pc' = [pc EXCEPT ![p] = "release"],
         rooms' = [rooms EXCEPT ![at[p]] = @ \ {c}],
         UNCHANGED <<subs, at>>
  PROVE  RefsCovered'
<1> USE DEF RefInv
<1> SUFFICES ASSUME NEW r \in Room
             PROVE  Cardinality(Refs(r))' <= subs[r]
  BY DEF RefsCovered
<1>1. \A q \in Proc : Carries(q, r)' <=> Carries(q, r) \/ (q = p /\ at[p] = r)
  BY DEF TypeOK, Carries
<1>2. IsFiniteSet(Refs(r)) /\ Cardinality(Refs(r)) \in Nat
  BY RefsFinite, FS_CardinalityType
<1>3. Cardinality(Refs(r)) <= subs[r] /\ subs[r] \in Nat
  BY DEF RefsCovered, TypeOK
<1>4. CASE at[p] = r
  <2>1. rooms'[r] = rooms[r] \ {c}
    BY <1>4 DEF TypeOK
  <2>2. <<c, "room">> \in Refs(r)
    BY <1>4 DEF Refs
  <2>3. Refs(r)' = (Refs(r) \ {<<c, "room">>}) \cup {p}
    <3>1. {<<d, "room">> : d \in rooms[r] \ {c}}
            = {<<d, "room">> : d \in rooms[r]} \ {<<c, "room">>}
      OBVIOUS
    <3>2. <<c, "room">> \notin Proc
      OBVIOUS
    <3>3. {q \in Proc : Carries(q, r)'} = {q \in Proc : Carries(q, r)} \cup {p}
      BY <1>1, <1>4
    <3>4. Refs(r)' = {<<d, "room">> : d \in rooms'[r]} \cup {q \in Proc : Carries(q, r)'}
      BY DEF Refs
    <3>5. QED
      BY <2>1, <3>1, <3>2, <3>3, <3>4 DEF Refs
  <2>4. IsFiniteSet(Refs(r) \ {<<c, "room">>})
        /\ Cardinality(Refs(r) \ {<<c, "room">>}) = Cardinality(Refs(r)) - 1
    BY <1>2, <2>2, FS_RemoveElement
  <2>5. Cardinality((Refs(r) \ {<<c, "room">>}) \cup {p})
          \in {Cardinality(Refs(r) \ {<<c, "room">>}),
              Cardinality(Refs(r) \ {<<c, "room">>}) + 1}
    BY <2>4, FS_AddElement
  <2>6. QED
    BY <1>2, <1>3, <2>3, <2>4, <2>5
<1>5. CASE at[p] # r
  <2>1. rooms'[r] = rooms[r]
    BY <1>5 DEF TypeOK
  <2>2. Refs(r)' = Refs(r)
    BY <1>1, <1>5, <2>1 DEF Refs
  <2>3. QED
    BY <1>3, <2>2
<1>6. QED
  BY <1>4, <1>5

(* A leaver counts itself out: the count was at least its own reference. *)
LEMMA CountOut ==
  ASSUME RefInv, NEW p \in Proc, NEW label \in PC \ {"joinAdd", "release"},
         pc[p] = "release",
         pc' = [pc EXCEPT ![p] = label],
         subs' = [subs EXCEPT ![at[p]] = IF subs[at[p]] - 1 <= 0 THEN 0
                                                               ELSE subs[at[p]] - 1],
         UNCHANGED <<rooms, at>>
  PROVE  RefsCovered'
<1> USE DEF RefInv
<1> SUFFICES ASSUME NEW r \in Room
             PROVE  Cardinality(Refs(r))' <= subs'[r]
  BY DEF RefsCovered
<1>1. \A q \in Proc : Carries(q, r)' <=> Carries(q, r) /\ q # p
  BY DEF TypeOK, Carries
<1>2. IsFiniteSet(Refs(r)) /\ Cardinality(Refs(r)) \in Nat
  BY RefsFinite, FS_CardinalityType
<1>3. Cardinality(Refs(r)) <= subs[r] /\ subs[r] \in Nat
  BY DEF RefsCovered, TypeOK
<1>4. CASE at[p] = r
  <2>1. p \in Refs(r) /\ \A d \in Conn : p # <<d, "room">>
    BY <1>4 DEF Refs, Carries
  <2>2. Refs(r)' = Refs(r) \ {p}
    BY <1>1, <2>1 DEF Refs, TypeOK
  <2>3. Cardinality(Refs(r) \ {p}) = Cardinality(Refs(r)) - 1
    BY <1>2, <2>1, FS_RemoveElement
  <2>4. subs'[r] = IF subs[r] - 1 <= 0 THEN 0 ELSE subs[r] - 1
    BY <1>4 DEF TypeOK
  <2>5. QED
    BY <1>2, <1>3, <2>2, <2>3, <2>4
<1>5. CASE at[p] # r
  <2>1. \A q \in Proc : Carries(q, r)' <=> Carries(q, r)
    BY <1>1, <1>5 DEF Carries
  <2>2. Refs(r)' = Refs(r)
    BY <2>1 DEF Refs
  <2>3. subs'[r] = subs[r]
    BY <1>5 DEF TypeOK
  <2>4. QED
    BY <1>3, <2>2, <2>3
<1>6. QED
  BY <1>4, <1>5

LEMMA ReadRefs ==
  ASSUME RefInv, NEW c \in Conn, ReadNext(c)
  PROVE  RefsCovered' /\ Unstarted'
<1> USE DEF RefInv
<1>p. <<c, "read">> \in Proc
  OBVIOUS
<1>1. ASSUME NEW r \in Room, ReadSubscribe(c, r)
      PROVE  Quiet /\ Unstarted'
  <2>1. UNCHANGED <<rooms, subs>> /\ pc[<<c, "read">>] = "reading"
    BY <1>1 DEF ReadSubscribe, hubVars
  <2>2. CASE r \in held[c]
    BY <1>1, <2>1, <2>2 DEF ReadSubscribe, Quiet, Carries, Unstarted
  <2>3. CASE r \notin held[c]
    <3>1. pc' = [pc EXCEPT ![<<c, "read">>] = "authorize"]
          /\ at' = [at EXCEPT ![<<c, "read">>] = r]
      BY <1>1, <2>3 DEF ReadSubscribe
    <3>2. QED
      BY <2>1, <3>1, EmptyHanded, StartedStays DEF TypeOK, PC
  <2>4. QED
    BY <2>2, <2>3
<1>2. ASSUME NEW r \in Room, ReadUnsubscribe(c, r)
      PROVE  Quiet /\ Unstarted'
  BY <1>2, EmptyHanded, StartedStays DEF TypeOK, ReadUnsubscribe, hubVars, PC
<1>3. CASE SubscribeAllowed(c)
  BY <1>3, EmptyHanded, StartedStays, QuietKeeps DEF SubscribeAllowed, hubVars, PC
<1>4. CASE SubscribeRefused(c)
  BY <1>4, EmptyHanded, StartedStays, QuietKeeps DEF SubscribeRefused, hubVars, PC
<1>5. CASE JoinCheck(c)
  <2>1. PICK label \in {"reading", "joinLock"} : pc' = [pc EXCEPT ![<<c, "read">>] = label]
    BY <1>5 DEF JoinCheck
  <2>2. QED
    BY <1>5, <2>1, EmptyHanded, StartedStays, QuietKeeps DEF JoinCheck, hubVars, PC
<1>6. CASE JoinCounted(c)
  BY <1>6, <1>p, CountIn, StartedStays DEF JoinCounted, PC
<1>7. CASE JoinFirst(c)
  <2>1. PICK label \in {"reading", "joinAck"} : pc' = [pc EXCEPT ![<<c, "read">>] = label]
    BY <1>7 DEF JoinFirst
  <2>2. pc[<<c, "read">>] = "joinLock" /\ UNCHANGED <<rooms, subs, at>>
    BY <1>7 DEF JoinFirst
  <2>3. QED
    BY <2>1, <2>2, EmptyHanded, StartedStays, QuietKeeps DEF PC
<1>8. CASE JoinAck(c)
  BY <1>8, <1>p, CountIn, StartedStays DEF JoinAck, PC
<1>9. CASE JoinFail(c)
  BY <1>9, EmptyHanded, StartedStays, QuietKeeps DEF JoinFail, PC
<1>10. CASE JoinAdd(c)
  BY <1>10, <1>p, MoveIn, StartedStays DEF JoinAdd, PC
<1>11. CASE RememberRoom(c)
  BY <1>11, EmptyHanded, StartedStays, QuietKeeps DEF RememberRoom, hubVars, PC
<1>12. CASE Acknowledge(c)
  BY <1>12, EmptyHanded, StartedStays, QuietKeeps DEF Acknowledge, hubVars, PC
<1>13. CASE ReadEnd(c)
  BY <1>13, EmptyHanded, StartedStays, QuietKeeps DEF ReadEnd, hubVars, PC
<1>14. QED
  BY <1>1, <1>2, <1>3, <1>4, <1>5, <1>6, <1>7, <1>8, <1>9, <1>10, <1>11,
     <1>12, <1>13, QuietKeeps DEF ReadNext

LEMMA LeaveRefs ==
  ASSUME RefInv, NEW p \in Proc, LeaveNext(p)
  PROVE  RefsCovered' /\ Unstarted'
<1> USE DEF RefInv
<1>0. p[1] \in Conn /\ AfterLeave(p) \in {"cleanup", "forget"}
  OBVIOUS
<1>1. CASE Leave(p)
  <2>1. pc[p] = "leave" /\ UNCHANGED <<subs, at>>
        /\ rooms' = [rooms EXCEPT ![at[p]] = @ \ {p[1]}]
    BY <1>1 DEF Leave
  <2>2. CASE p[1] \in rooms[at[p]]
    <3>1. pc' = [pc EXCEPT ![p] = "release"]
      BY <1>1, <2>2 DEF Leave
    <3>2. QED
      BY <1>0, <2>1, <2>2, <3>1, MoveOut, StartedStays DEF PC
  <2>3. CASE p[1] \notin rooms[at[p]]
    <3>1. pc' = [pc EXCEPT ![p] = AfterLeave(p)]
      BY <1>1, <2>3 DEF Leave
    <3>2. rooms' = rooms
      BY <2>1, <2>3 DEF TypeOK
    <3>3. QED
      BY <1>0, <2>1, <3>1, <3>2, EmptyHanded, StartedStays, QuietKeeps DEF PC
  <2>4. QED
    BY <2>2, <2>3
<1>2. CASE Release(p)
  <2>1. PICK label \in {"unsub", "cleanup", "forget"} : pc' = [pc EXCEPT ![p] = label]
    BY <1>0, <1>2 DEF Release
  <2>2. QED
    BY <1>2, <2>1, CountOut, StartedStays DEF Release, PC
<1>3. CASE Unsubscribe(p)
  BY <1>0, <1>3, EmptyHanded, StartedStays, QuietKeeps DEF Unsubscribe, PC
<1>4. CASE ForgetRoom(p)
  BY <1>4, EmptyHanded, StartedStays, QuietKeeps DEF ForgetRoom, hubVars, PC
<1>5. CASE TellUnsubscribed(p)
  <2>1. PICK label \in {"reading", "sweep"} : pc' = [pc EXCEPT ![p] = label]
    BY <1>5 DEF TellUnsubscribed
  <2>2. QED
    BY <1>5, <2>1, EmptyHanded, StartedStays, QuietKeeps DEF TellUnsubscribed, hubVars, PC
<1>6. QED
  BY <1>1, <1>2, <1>3, <1>4, <1>5 DEF LeaveNext

LEMMA InitRefs == Init => RefInv
<1> SUFFICES ASSUME Init PROVE RefInv
  OBVIOUS
<1>1. TypeOK /\ Unstarted
  BY InitTyped DEF Init, Unstarted
<1>2. \A r \in Room : Refs(r) = {} /\ subs[r] = 0
  BY DEF Init, Refs, Carries
<1>3. QED
  BY <1>1, <1>2, FS_EmptySet DEF RefInv, RefsCovered

LEMMA NextRefs == RefInv /\ [Next]_vars => RefInv'
<1> SUFFICES ASSUME RefInv, [Next]_vars PROVE RefInv'
  OBVIOUS
<1>1. TypeOK'
  BY NextTyped DEF RefInv
<1>2. CASE UNCHANGED vars
  <2>1. Quiet /\ Unstarted'
    BY <1>2 DEF RefInv, vars, Quiet, Carries, Unstarted
  <2>2. QED
    BY <1>1, <2>1, QuietKeeps DEF RefInv
<1>3. CASE Next
  <2>1. ASSUME NEW c \in Conn, ServeNext(c) \/ MaintNext(c) \/ CloseConn(c) \/ Environment(c)
        PROVE  Quiet /\ Unstarted'
    BY <2>1, ServeRefs, MaintRefs, OtherRefs
  <2>2. ASSUME NEW c \in Conn, ReadNext(c)
        PROVE  RefsCovered' /\ Unstarted'
    BY <2>2, ReadRefs
  <2>3. ASSUME NEW p \in Proc, LeaveNext(p)
        PROVE  RefsCovered' /\ Unstarted'
    BY <2>3, LeaveRefs
  <2>4. CASE ShutdownNext
    BY <1>1, <2>4, OtherRefs, QuietKeeps DEF RefInv
  <2>5. QED
    BY <1>1, <1>3, <2>1, <2>2, <2>3, <2>4, QuietKeeps DEF Next, RefInv
<1>4. QED
  BY <1>2, <1>3

\* Hub.subs covers every member, joiner and leaver of every room, whatever the
\* interleaving, and so a count of zero means the room really is empty.
THEOREM HubRefsCovered == Spec => []RefsCovered
<1>1. RefInv => RefsCovered
  BY DEF RefInv
<1>2. QED
  BY <1>1, InitRefs, NextRefs, PTL DEF Spec

-----------------------------------------------------------------------------
(* The subscription lock. *)

(* A goroutine that neither takes nor drops the lock. *)
LEMMA LockKept ==
  ASSUME TypeOK, SubscribeSerial, UNCHANGED subMu,
         NEW p \in Proc, NEW label \in PC \ {"joinAck"},
         pc[p] # "joinAck", pc' = [pc EXCEPT ![p] = label]
  PROVE  SubscribeSerial'
  BY DEF TypeOK, SubscribeSerial

LEMMA ServeSerial ==
  ASSUME TypeOK, Unstarted, SubscribeSerial, NEW c \in Conn, ServeNext(c)
  PROVE  SubscribeSerial'
<1>1. CASE Register(c)
  <2>1. CASE closing
    <3>1. /\ pc' = [pc EXCEPT ![<<c, "serve">>] = "finished"]
          /\ pc[<<c, "serve">>] = "new" /\ UNCHANGED subMu
      BY <1>1, <2>1 DEF Register
    <3>2. QED
      BY <3>1, LockKept DEF PC
  <2>2. CASE ~closing
    <3>1. /\ pc' = [pc EXCEPT ![<<c, "serve">>] = "serving",
                              ![<<c, "read">>]  = "reading",
                              ![<<c, "maint">>] = "idle"]
          /\ UNCHANGED subMu
          /\ pc[<<c, "serve">>] = "new"
      BY <1>1, <2>2 DEF Register
    <3>2. \A q \in Proc : (pc'[q] = "joinAck") <=> (pc[q] = "joinAck")
      BY <3>1 DEF TypeOK, Unstarted
    <3>3. QED
      BY <3>1, <3>2 DEF SubscribeSerial
  <2>3. QED
    BY <2>1, <2>2
<1>2. CASE BeginRemove(c)
  BY <1>2, LockKept DEF BeginRemove, hubVars, PC
<1>3. CASE EndRemove(c)
  BY <1>3, LockKept DEF EndRemove, PC
<1>4. ASSUME NEW r \in Room, RemoveNext(c, r)
      PROVE  SubscribeSerial'
  BY <1>4, LockKept DEF RemoveNext, hubVars, PC
<1>5. QED
  BY <1>1, <1>2, <1>3, <1>4 DEF ServeNext

LEMMA ReadSerial ==
  ASSUME TypeOK, SubscribeSerial, NEW c \in Conn, ReadNext(c)
  PROVE  SubscribeSerial'
<1>1. ASSUME NEW r \in Room, ReadSubscribe(c, r)
      PROVE  SubscribeSerial'
  <2>1. CASE r \in held[c]
    BY <1>1, <2>1 DEF ReadSubscribe, hubVars, SubscribeSerial
  <2>2. CASE r \notin held[c]
    BY <1>1, <2>2, LockKept DEF ReadSubscribe, hubVars, PC
  <2>3. QED
    BY <2>1, <2>2
<1>2. ASSUME NEW r \in Room, ReadUnsubscribe(c, r)
      PROVE  SubscribeSerial'
  BY <1>2, LockKept DEF ReadUnsubscribe, hubVars, PC
<1>3. CASE SubscribeAllowed(c)
  BY <1>3, LockKept DEF SubscribeAllowed, hubVars, PC
<1>4. CASE SubscribeRefused(c)
  BY <1>4, LockKept DEF SubscribeRefused, hubVars, PC
<1>5. CASE JoinCheck(c)
  <2>1. PICK label \in {"reading", "joinLock"} : pc' = [pc EXCEPT ![<<c, "read">>] = label]
    BY <1>5 DEF JoinCheck
  <2>2. QED
    BY <1>5, <2>1, LockKept DEF JoinCheck, hubVars, PC
<1>6. CASE JoinCounted(c)
  BY <1>6, LockKept DEF JoinCounted, PC
<1>7. CASE JoinFirst(c)
  <2>1. CASE shut = "stopped"
    BY <1>7, <2>1, LockKept DEF JoinFirst, PC
  <2>2. CASE shut # "stopped"
    <3>1. /\ subMu = Free /\ subMu' = <<c, "read">>
          /\ pc' = [pc EXCEPT ![<<c, "read">>] = "joinAck"]
      BY <1>7, <2>2 DEF JoinFirst
    <3>2. \A q \in Proc : pc[q] # "joinAck"
      BY <3>1, FreeIsNoProc DEF SubscribeSerial
    <3>3. QED
      BY <3>1, <3>2 DEF TypeOK, SubscribeSerial
  <2>3. QED
    BY <2>1, <2>2
<1>8. CASE JoinAck(c) \/ JoinFail(c)
  <2>1. PICK label \in {"reading", "joinAdd"} : pc' = [pc EXCEPT ![<<c, "read">>] = label]
    BY <1>8 DEF JoinAck, JoinFail
  <2>2. subMu = <<c, "read">> /\ subMu' = Free
    BY <1>8 DEF JoinAck, JoinFail, SubscribeSerial
  <2>3. \A q \in Proc : pc'[q] # "joinAck"
    BY <2>1, <2>2 DEF TypeOK, SubscribeSerial
  <2>4. QED
    BY <2>2, <2>3, FreeIsNoProc DEF SubscribeSerial
<1>9. CASE JoinAdd(c)
  BY <1>9, LockKept DEF JoinAdd, PC
<1>10. CASE RememberRoom(c)
  BY <1>10, LockKept DEF RememberRoom, hubVars, PC
<1>11. CASE Acknowledge(c)
  BY <1>11, LockKept DEF Acknowledge, hubVars, PC
<1>12. CASE ReadEnd(c)
  BY <1>12, LockKept DEF ReadEnd, hubVars, PC
<1>13. QED
  BY <1>1, <1>2, <1>3, <1>4, <1>5, <1>6, <1>7, <1>8, <1>9, <1>10, <1>11,
     <1>12 DEF ReadNext

LEMMA MaintSerial ==
  ASSUME TypeOK, SubscribeSerial, NEW c \in Conn, MaintNext(c)
  PROVE  SubscribeSerial'
<1>1. CASE MaintainClose(c)
  BY <1>1, LockKept DEF MaintainClose, hubVars, PC
<1>2. CASE MaintainEnd(c)
  BY <1>2, LockKept DEF MaintainEnd, hubVars, PC
<1>3. CASE Reauthorize(c)
  BY <1>3, LockKept DEF Reauthorize, hubVars, PC
<1>4. CASE SweepEnd(c)
  BY <1>4, LockKept DEF SweepEnd, hubVars, PC
<1>5. ASSUME NEW r \in Room, SweepKeep(c, r)
      PROVE  SubscribeSerial'
  BY <1>5 DEF SweepKeep, hubVars, SubscribeSerial
<1>6. ASSUME NEW r \in Room, SweepRevoke(c, r)
      PROVE  SubscribeSerial'
  BY <1>6, LockKept DEF SweepRevoke, hubVars, PC
<1>7. QED
  BY <1>1, <1>2, <1>3, <1>4, <1>5, <1>6 DEF MaintNext

LEMMA LeaveSerial ==
  ASSUME TypeOK, SubscribeSerial, NEW p \in Proc, LeaveNext(p)
  PROVE  SubscribeSerial'
<1>1. PICK label \in {"release", "unsub", "cleanup", "forget", "tell", "reading", "sweep"} :
        pc' = [pc EXCEPT ![p] = label]
  BY DEF LeaveNext, Leave, Release, Unsubscribe, ForgetRoom, TellUnsubscribed
<1>2. pc[p] # "joinAck" /\ UNCHANGED subMu
  BY DEF LeaveNext, Leave, Release, Unsubscribe, ForgetRoom, TellUnsubscribed, hubVars
<1>3. QED
  BY <1>1, <1>2, LockKept DEF PC

LEMMA NextSerial == RefInv /\ SubscribeSerial /\ [Next]_vars => SubscribeSerial'
<1> SUFFICES ASSUME RefInv, SubscribeSerial, [Next]_vars PROVE SubscribeSerial'
  OBVIOUS
<1> USE DEF RefInv
<1>1. CASE UNCHANGED <<pc, subMu>>
  BY <1>1 DEF SubscribeSerial
<1>2. ASSUME NEW c \in Conn, ServeNext(c) \/ ReadNext(c) \/ MaintNext(c)
      PROVE  SubscribeSerial'
  BY <1>2, ServeSerial, ReadSerial, MaintSerial
<1>3. ASSUME NEW p \in Proc, LeaveNext(p)
      PROVE  SubscribeSerial'
  BY <1>3, LeaveSerial
<1>4. ASSUME ShutdownNext \/ \E c \in Conn : CloseConn(c) \/ Environment(c)
      PROVE  UNCHANGED <<pc, subMu>>
  BY <1>4 DEF ShutdownNext, ShutdownBegin, ShutdownClose, ShutdownStop, CloseConn,
     Environment, Revoke, Grant, hubVars, procVars
<1>5. QED
  BY <1>1, <1>2, <1>3, <1>4 DEF Next, vars

\* Hub.subMu: at most one goroutine is ever inside Broker.Subscribe, it is the
\* one holding subMu, and nobody holds subMu for anything else across a step.
THEOREM HubSubscribeSerial == Spec => []SubscribeSerial
<1>1. Init => SubscribeSerial
  BY FreeIsNoProc DEF Init, SubscribeSerial
<1>2. QED
  BY <1>1, InitRefs, NextRefs, NextSerial, PTL DEF Spec

(***************************************************************************)
(* When a client names a board at most once on a connection (Resubscribes  *)
(* = FALSE), as apps/web does, the counts of Hub.subs are exact, and a     *)
(* connection that has ended is in no room.                                *)
(*                                                                         *)
(* The invariant follows one connection.  While it is served, its list of  *)
(* rooms lags behind the hub's map by at most the room readPump is adding; *)
(* a sweep leaves only rooms whose join is over and will not come again;   *)
(* and while it is removed, the map keeps only what remove has yet to      *)
(* visit.                                                                  *)
(***************************************************************************)
Joining == {"authorize", "join", "joinLock", "joinAck", "joinAdd"}
Arriving == Joining \cup {"remember"}
Gone == {"release", "unsub", "forget"}

\* Each goroutine is in its own part of the program.
Roles(c) ==
    /\ pc[<<c, "serve">>] \in {"new", "serving", "cleanup", "leave", "release", "unsub",
                               "finished"}
    /\ pc[<<c, "maint">>] \in {"off", "idle", "sweep", "leave", "release", "unsub",
                               "forget", "tell", "done"}
    /\ pc[<<c, "serve">>] = "new" => pc[<<c, "read">>] = "off" /\ pc[<<c, "maint">>] = "off"
    /\ pc[<<c, "serve">>] \in {"cleanup", "leave", "release", "unsub"}
        => pc[<<c, "read">>] = "done" /\ pc[<<c, "maint">>] = "done"
    /\ pc[<<c, "serve">>] = "finished"
        => pc[<<c, "read">>] \in {"off", "done"} /\ pc[<<c, "maint">>] \in {"off", "done"}

\* Whatever a goroutine of c has to do with a room, the client has named it.
Named(c) ==
    /\ held[c] \subseteq named[c]
    /\ todo[<<c, "maint">>] \subseteq named[c]
    /\ \A r \in Room : c \in rooms[r] => r \in named[c]
    /\ pc[<<c, "read">>] \in Arriving => at[<<c, "read">>] \in named[c]
    /\ pc[<<c, "maint">>] \in Gone \cup {"leave"} => at[<<c, "maint">>] \in named[c]

\* A room that is being joined is not yet joined, and nobody is leaving it.
JoinsAnew(c) ==
    /\ pc[<<c, "read">>] \in Joining => c \notin rooms[at[<<c, "read">>]]
    /\ pc[<<c, "read">>] \in Arriving =>
        /\ at[<<c, "read">>] \notin held[c] \cup todo[<<c, "maint">>]
        /\ pc[<<c, "maint">>] \in Gone \cup {"leave"} => at[<<c, "maint">>] # at[<<c, "read">>]

\* What has been left stays left.
StaysLeft(c) ==
    /\ pc[<<c, "read">>] \in Gone => c \notin rooms[at[<<c, "read">>]]
    /\ pc[<<c, "maint">>] \in Gone => c \notin rooms[at[<<c, "maint">>]]

\* The hub's map against the connection's list.
Listed(c) ==
    \A r \in Room : c \in rooms[r] =>
        \/ /\ pc[<<c, "serve">>] = "serving"
           /\ \/ r \in held[c]
              \/ pc[<<c, "read">>] = "remember" /\ at[<<c, "read">>] = r
        \/ /\ pc[<<c, "serve">>] \in {"cleanup", "leave", "release", "unsub"}
           /\ \/ r \in todo[<<c, "serve">>]
              \/ pc[<<c, "serve">>] = "leave" /\ at[<<c, "serve">>] = r

Unregistered(c) == pc[<<c, "serve">>] \in {"new", "finished"} => c \notin conns

OnceAt(c) == /\ Roles(c) /\ Named(c) /\ JoinsAnew(c)
             /\ StaysLeft(c) /\ Listed(c) /\ Unregistered(c)

Once == TypeOK /\ \A c \in Conn : OnceAt(c)

-----------------------------------------------------------------------------
(* A step of one connection and the others. *)

Rests(p) == pc'[p] = pc[p] /\ at'[p] = at[p] /\ todo'[p] = todo[p]

Untouched(c) ==
    /\ Rests(<<c, "serve">>) /\ Rests(<<c, "read">>) /\ Rests(<<c, "maint">>)
    /\ held'[c] = held[c] /\ named'[c] = named[c]
    /\ c \in conns' <=> c \in conns
    /\ \A r \in Room : c \in rooms'[r] <=> c \in rooms[r]

\* A connection that a step does not touch keeps its part of the invariant.
LEMMA UntouchedKeeps ==
  ASSUME NEW c \in Conn, TypeOK, OnceAt(c), Untouched(c)
  PROVE  OnceAt(c)'
<1> USE DEF OnceAt, Untouched, Rests, Joining, Arriving, Gone
<1>1. at[<<c, "read">>] \in Room /\ at[<<c, "maint">>] \in Room
  BY DEF TypeOK
<1>2. Roles(c)' /\ Unregistered(c)'
  BY DEF Roles, Unregistered
<1>3. Named(c)'
  BY DEF Named
<1>4. JoinsAnew(c)'
  BY <1>1 DEF JoinsAnew
<1>5. StaysLeft(c)'
  BY <1>1 DEF StaysLeft
<1>6. Listed(c)'
  BY DEF Listed
<1>7. QED
  BY <1>2, <1>3, <1>4, <1>5, <1>6

\* What serve of d does leaves c alone;
LEMMA ServeElsewhere ==
  ASSUME TypeOK, NEW c \in Conn, NEW d \in Conn, d # c, ServeNext(d)
  PROVE  Untouched(c)
<1> USE DEF TypeOK, Untouched, Rests, hubVars, connVars, envVars, shutVars
<1>1. CASE Register(d)
  BY <1>1 DEF Register
<1>2. CASE BeginRemove(d)
  BY <1>2 DEF BeginRemove
<1>3. CASE EndRemove(d)
  BY <1>3 DEF EndRemove
<1>4. ASSUME NEW r \in Room, RemoveNext(d, r)
      PROVE  Untouched(c)
  BY <1>4 DEF RemoveNext
<1>5. QED
  BY <1>1, <1>2, <1>3, <1>4 DEF ServeNext

\* so does what readPump of d does,
LEMMA ReadElsewhere ==
  ASSUME TypeOK, NEW c \in Conn, NEW d \in Conn, d # c, ReadNext(d)
  PROVE  Untouched(c)
<1> USE DEF TypeOK, Untouched, Rests, hubVars, connVars, envVars, shutVars
<1>1. CASE SubscribeAllowed(d)
  BY <1>1 DEF SubscribeAllowed
<1>2. CASE SubscribeRefused(d)
  BY <1>2 DEF SubscribeRefused
<1>3. CASE JoinCheck(d)
  BY <1>3 DEF JoinCheck
<1>4. CASE JoinCounted(d)
  BY <1>4 DEF JoinCounted
<1>5. CASE JoinFirst(d)
  BY <1>5 DEF JoinFirst
<1>6. CASE JoinAck(d)
  BY <1>6 DEF JoinAck
<1>7. CASE JoinFail(d)
  BY <1>7 DEF JoinFail
<1>8. CASE JoinAdd(d)
  BY <1>8 DEF JoinAdd
<1>9. CASE RememberRoom(d)
  BY <1>9 DEF RememberRoom
<1>10. CASE Acknowledge(d)
  BY <1>10 DEF Acknowledge
<1>11. CASE ReadEnd(d)
  BY <1>11 DEF ReadEnd
<1>12. ASSUME NEW r \in Room, ReadSubscribe(d, r)
      PROVE  Untouched(c)
  BY <1>12 DEF ReadSubscribe
<1>13. ASSUME NEW r \in Room, ReadUnsubscribe(d, r)
      PROVE  Untouched(c)
  BY <1>13 DEF ReadUnsubscribe
<1>14. QED
  BY <1>1, <1>2, <1>3, <1>4, <1>5, <1>6, <1>7, <1>8, <1>9, <1>10, <1>11,
     <1>12, <1>13 DEF ReadNext

\* and what maintain of d does,
LEMMA MaintElsewhere ==
  ASSUME TypeOK, NEW c \in Conn, NEW d \in Conn, d # c, MaintNext(d)
  PROVE  Untouched(c)
<1> USE DEF TypeOK, Untouched, Rests, hubVars, connVars, envVars, shutVars
<1>1. CASE MaintainClose(d)
  BY <1>1 DEF MaintainClose
<1>2. CASE MaintainEnd(d)
  BY <1>2 DEF MaintainEnd
<1>3. CASE Reauthorize(d)
  BY <1>3 DEF Reauthorize
<1>4. CASE SweepEnd(d)
  BY <1>4 DEF SweepEnd
<1>5. ASSUME NEW r \in Room, SweepKeep(d, r)
      PROVE  Untouched(c)
  BY <1>5 DEF SweepKeep
<1>6. ASSUME NEW r \in Room, SweepRevoke(d, r)
      PROVE  Untouched(c)
  BY <1>6 DEF SweepRevoke
<1>7. QED
  BY <1>1, <1>2, <1>3, <1>4, <1>5, <1>6 DEF MaintNext

\* and a departure of d, whichever of its goroutines runs it.
LEMMA LeaveElsewhere ==
  ASSUME TypeOK, NEW c \in Conn, NEW p \in Proc, p[1] # c, LeaveNext(p)
  PROVE  Untouched(c)
<1> USE DEF TypeOK, Untouched, Rests, hubVars, connVars, envVars, shutVars
<1>0. \A q \in Proc : q[1] = c => q # p
  OBVIOUS
<1>1. CASE Leave(p)
  BY <1>0, <1>1 DEF Leave
<1>2. CASE Release(p)
  BY <1>0, <1>2 DEF Release
<1>3. CASE Unsubscribe(p)
  BY <1>0, <1>3 DEF Unsubscribe
<1>4. CASE ForgetRoom(p)
  BY <1>0, <1>4 DEF ForgetRoom
<1>5. CASE TellUnsubscribed(p)
  BY <1>0, <1>5 DEF TellUnsubscribed
<1>6. QED
  BY <1>1, <1>2, <1>3, <1>4, <1>5 DEF LeaveNext

\* Closes, grants, revocations and shutdown touch no goroutine, list or map.
LEMMA OtherElsewhere ==
  ASSUME NEW c \in Conn,
         \/ ShutdownNext
         \/ \E d \in Conn : CloseConn(d) \/ Environment(d)
  PROVE  Untouched(c)
<1>1. UNCHANGED <<conns, rooms, held, named, pc, at, todo>>
  BY DEF ShutdownNext, ShutdownBegin, ShutdownClose, ShutdownStop, CloseConn,
     Environment, Revoke, Grant, hubVars, connVars, envVars, procVars
<1>2. QED
  BY <1>1 DEF Untouched, Rests

-----------------------------------------------------------------------------
(* A connection's own steps. *)

\* serve: the rooms remove has yet to visit are the rooms the map still has.
LEMMA ServeOnce ==
  ASSUME NEW c \in Conn, TypeOK, OnceAt(c), ServeNext(c)
  PROVE  OnceAt(c)'
<1> USE DEF TypeOK, OnceAt, Roles, Named, JoinsAnew, StaysLeft, Listed, Unregistered,
     Joining, Arriving, Gone, PC, hubVars, connVars, envVars, shutVars
<1>1. CASE Register(c)
  <2>1. pc[<<c, "serve">>] = "new" /\ pc[<<c, "read">>] = "off" /\ pc[<<c, "maint">>] = "off"
        /\ UNCHANGED <<rooms, held, named, at, todo>>
    BY <1>1 DEF Register
  <2>2. CASE closing
    BY <1>1, <2>1, <2>2, ZenonT(40) DEF Register
  <2>3. CASE ~closing
    <3>1. conns' = conns \cup {c}
          /\ pc' = [pc EXCEPT ![<<c, "serve">>] = "serving",
                              ![<<c, "read">>]  = "reading",
                              ![<<c, "maint">>] = "idle"]
      BY <1>1, <2>3 DEF Register
    <3>2. pc'[<<c, "serve">>] = "serving" /\ pc'[<<c, "read">>] = "reading"
          /\ pc'[<<c, "maint">>] = "idle"
      BY <3>1
    <3>3. QED
      BY <2>1, <3>2
  <2>4. QED
    BY <2>2, <2>3
<1>2. CASE BeginRemove(c)
  BY <1>2 DEF BeginRemove
<1>3. CASE EndRemove(c)
  BY <1>3 DEF EndRemove
<1>4. ASSUME NEW r \in Room, RemoveNext(c, r)
      PROVE  OnceAt(c)'
  BY <1>4 DEF RemoveNext
<1>5. QED
  BY <1>1, <1>2, <1>3, <1>4 DEF ServeNext

\* readPump: the one place that names a room, and it never names one twice, so
\* what is being joined is a room nobody has anything left to do with.
LEMMA ReadOnce ==
  ASSUME Resubscribes = FALSE, NEW c \in Conn, TypeOK, OnceAt(c), ReadNext(c)
  PROVE  OnceAt(c)'
<1> USE DEF TypeOK, OnceAt, Roles, Named, JoinsAnew, StaysLeft, Listed, Unregistered,
     Joining, Arriving, Gone, PC, hubVars, connVars, envVars, shutVars
<1>1. ASSUME NEW r \in Room, ReadSubscribe(c, r)
      PROVE  OnceAt(c)'
  <2>1. /\ pc[<<c, "read">>] = "reading" /\ r \notin named[c]
        /\ named'[c] = named[c] \cup {r}
        /\ UNCHANGED <<conns, rooms, held, todo>>
    BY <1>1 DEF ReadSubscribe
  <2>2. r \notin held[c]
    BY <2>1
  <2>3. pc' = [pc EXCEPT ![<<c, "read">>] = "authorize"]
        /\ at' = [at EXCEPT ![<<c, "read">>] = r]
    BY <1>1, <2>2 DEF ReadSubscribe
  <2>4. /\ Rests(<<c, "serve">>) /\ Rests(<<c, "maint">>)
        /\ pc'[<<c, "read">>] = "authorize" /\ at'[<<c, "read">>] = r
    BY <2>1, <2>3 DEF Rests
  <2>5. QED
    BY <2>1, <2>2, <2>4 DEF Rests
<1>2. ASSUME NEW r \in Room, ReadUnsubscribe(c, r)
      PROVE  OnceAt(c)'
  BY <1>2 DEF ReadUnsubscribe
<1>3. CASE SubscribeAllowed(c)
  BY <1>3 DEF SubscribeAllowed
<1>4. CASE SubscribeRefused(c)
  BY <1>4 DEF SubscribeRefused
<1>5. CASE JoinCheck(c)
  BY <1>5 DEF JoinCheck
<1>6. CASE JoinCounted(c)
  BY <1>6 DEF JoinCounted
<1>7. CASE JoinFirst(c)
  <2>1. pc[<<c, "read">>] = "joinLock" /\ UNCHANGED <<conns, rooms, held, named, at, todo>>
    BY <1>7 DEF JoinFirst
  <2>2. PICK label \in {"reading", "joinAck"} : pc' = [pc EXCEPT ![<<c, "read">>] = label]
    BY <1>7 DEF JoinFirst
  <2>3. QED
    BY <2>1, <2>2
<1>8. CASE JoinAck(c)
  BY <1>8 DEF JoinAck
<1>9. CASE JoinFail(c)
  BY <1>9 DEF JoinFail
<1>10. CASE JoinAdd(c)
  BY <1>10 DEF JoinAdd
<1>11. CASE RememberRoom(c)
  BY <1>11 DEF RememberRoom
<1>12. CASE Acknowledge(c)
  BY <1>12 DEF Acknowledge
<1>13. CASE ReadEnd(c)
  BY <1>13 DEF ReadEnd
<1>14. QED
  BY <1>1, <1>2, <1>3, <1>4, <1>5, <1>6, <1>7, <1>8, <1>9, <1>10, <1>11,
     <1>12, <1>13 DEF ReadNext

\* maintain: a sweep works on rooms whose join is over.
LEMMA MaintOnce ==
  ASSUME NEW c \in Conn, TypeOK, OnceAt(c), MaintNext(c)
  PROVE  OnceAt(c)'
<1> USE DEF TypeOK, OnceAt, Roles, Named, JoinsAnew, StaysLeft, Listed, Unregistered,
     Joining, Arriving, Gone, PC, hubVars, connVars, envVars, shutVars
<1>1. CASE MaintainClose(c)
  BY <1>1 DEF MaintainClose
<1>2. CASE MaintainEnd(c)
  BY <1>2 DEF MaintainEnd
<1>3. CASE Reauthorize(c)
  BY <1>3 DEF Reauthorize
<1>4. CASE SweepEnd(c)
  BY <1>4 DEF SweepEnd
<1>5. ASSUME NEW r \in Room, SweepKeep(c, r)
      PROVE  OnceAt(c)'
  BY <1>5 DEF SweepKeep
<1>6. ASSUME NEW r \in Room, SweepRevoke(c, r)
      PROVE  OnceAt(c)'
  BY <1>6 DEF SweepRevoke
<1>7. QED
  BY <1>1, <1>2, <1>3, <1>4, <1>5, <1>6 DEF MaintNext

\* Hub.leave and what follows it, in each of the three goroutines: the map loses
\* the room first and the list after it, and nothing puts it back in between.
LEMMA LeaveOnce ==
  ASSUME NEW c \in Conn, NEW p \in Proc, p[1] = c, TypeOK, OnceAt(c), LeaveNext(p)
  PROVE  OnceAt(c)'
<1> USE DEF TypeOK, OnceAt, Roles, Named, JoinsAnew, StaysLeft, Listed, Unregistered,
     Joining, Arriving, Gone, PC, hubVars, connVars, envVars, shutVars
<1>0. p \in {<<c, "serve">>, <<c, "read">>, <<c, "maint">>}
  OBVIOUS
<1>1. CASE Leave(p)
  <2>1. /\ pc[p] = "leave" /\ UNCHANGED <<conns, held, named, at, todo>>
        /\ \A q \in Proc : q # p => pc'[q] = pc[q]
        /\ pc'[p] = IF c \in rooms[at[p]] THEN "release" ELSE AfterLeave(p)
        /\ \A r \in Room : c \in rooms'[r] <=> (c \in rooms[r] /\ r # at[p])
    BY <1>1 DEF Leave
  <2>2. CASE p = <<c, "serve">>
    <3>1. pc'[p] \in {"release", "cleanup"}
      BY <2>1, <2>2
    <3>2. at[p] \in Room
      OBVIOUS
    <3>3. c \notin rooms'[at[p]]
      BY <2>1, <3>2
    <3>4. <<c, "read">> # p /\ <<c, "maint">> # p
      BY <2>2
    <3>5. /\ pc'[<<c, "read">>] = pc[<<c, "read">>]
          /\ pc'[<<c, "maint">>] = pc[<<c, "maint">>]
      BY <2>1, <3>4
    <3>6. /\ pc[<<c, "serve">>] = "leave" /\ pc'[<<c, "serve">>] \in {"release", "cleanup"}
          /\ pc'[<<c, "read">>] = pc[<<c, "read">>]
          /\ pc'[<<c, "maint">>] = pc[<<c, "maint">>]
          /\ at[<<c, "serve">>] \in Room /\ c \notin rooms'[at[<<c, "serve">>]]
      BY <2>1, <2>2, <3>1, <3>2, <3>3, <3>4, <3>5
    <3>7. Roles(c)' /\ Named(c)' /\ Unregistered(c)'
      BY <2>1, <2>2, <3>6
    <3>8. JoinsAnew(c)' /\ StaysLeft(c)'
      BY <2>1, <2>2, <3>6
    <3>9. Listed(c)'
      BY <2>1, <2>2, <3>6
    <3>10. QED
      BY <3>7, <3>8, <3>9
  <2>3. CASE p = <<c, "read">>
    <3>1. pc'[p] \in {"release", "forget"}
      BY <2>1, <2>3
    <3>2. at[p] \in Room
      OBVIOUS
    <3>3. c \notin rooms'[at[p]]
      BY <2>1, <3>2
    <3>4. <<c, "serve">> # p /\ <<c, "maint">> # p
      BY <2>3
    <3>5. /\ pc'[<<c, "serve">>] = pc[<<c, "serve">>]
          /\ pc'[<<c, "maint">>] = pc[<<c, "maint">>]
      BY <2>1, <3>4
    <3>6. /\ pc[<<c, "read">>] = "leave" /\ pc'[<<c, "read">>] \in {"release", "forget"}
          /\ pc'[<<c, "serve">>] = pc[<<c, "serve">>]
          /\ pc'[<<c, "maint">>] = pc[<<c, "maint">>]
          /\ at[<<c, "read">>] \in Room /\ c \notin rooms'[at[<<c, "read">>]]
      BY <2>1, <2>3, <3>1, <3>2, <3>3, <3>4, <3>5
    <3>7. Roles(c)' /\ Named(c)' /\ Unregistered(c)'
      BY <2>1, <2>3, <3>6
    <3>8. JoinsAnew(c)' /\ StaysLeft(c)'
      BY <2>1, <2>3, <3>6
    <3>9. Listed(c)'
      BY <2>1, <2>3, <3>6
    <3>10. QED
      BY <3>7, <3>8, <3>9
  <2>4. CASE p = <<c, "maint">>
    <3>1. pc'[p] \in {"release", "forget"}
      BY <2>1, <2>4
    <3>2. at[p] \in Room
      OBVIOUS
    <3>3. c \notin rooms'[at[p]]
      BY <2>1, <3>2
    <3>4. <<c, "serve">> # p /\ <<c, "read">> # p
      BY <2>4
    <3>5. /\ pc'[<<c, "serve">>] = pc[<<c, "serve">>]
          /\ pc'[<<c, "read">>] = pc[<<c, "read">>]
      BY <2>1, <3>4
    <3>6. /\ pc[<<c, "maint">>] = "leave" /\ pc'[<<c, "maint">>] \in {"release", "forget"}
          /\ pc'[<<c, "serve">>] = pc[<<c, "serve">>]
          /\ pc'[<<c, "read">>] = pc[<<c, "read">>]
          /\ at[<<c, "maint">>] \in Room /\ c \notin rooms'[at[<<c, "maint">>]]
      BY <2>1, <2>4, <3>1, <3>2, <3>3, <3>4, <3>5
    <3>7. Roles(c)' /\ Named(c)' /\ Unregistered(c)'
      BY <2>1, <2>4, <3>6
    <3>8. JoinsAnew(c)' /\ StaysLeft(c)'
      BY <2>1, <2>4, <3>6
    <3>9. Listed(c)'
      BY <2>1, <2>4, <3>6
    <3>10. QED
      BY <3>7, <3>8, <3>9
  <2>5. QED
    BY <1>0, <2>2, <2>3, <2>4
<1>2. CASE Release(p)
  <2>1. CASE p = <<c, "serve">>
    BY <1>2, <2>1 DEF Release
  <2>2. CASE p = <<c, "read">>
    BY <1>2, <2>2 DEF Release
  <2>3. CASE p = <<c, "maint">>
    BY <1>2, <2>3 DEF Release
  <2>4. QED
    BY <1>0, <2>1, <2>2, <2>3
<1>3. CASE Unsubscribe(p)
  <2>1. CASE p = <<c, "serve">>
    BY <1>3, <2>1 DEF Unsubscribe
  <2>2. CASE p = <<c, "read">>
    BY <1>3, <2>2 DEF Unsubscribe
  <2>3. CASE p = <<c, "maint">>
    BY <1>3, <2>3 DEF Unsubscribe
  <2>4. QED
    BY <1>0, <2>1, <2>2, <2>3
<1>4. CASE ForgetRoom(p)
  <2>1. CASE p = <<c, "serve">>
    BY <1>4, <2>1 DEF ForgetRoom
  <2>2. CASE p = <<c, "read">>
    BY <1>4, <2>2, ZenonT(40) DEF ForgetRoom
  <2>3. CASE p = <<c, "maint">>
    BY <1>4, <2>3 DEF ForgetRoom
  <2>4. QED
    BY <1>0, <2>1, <2>2, <2>3
<1>5. CASE TellUnsubscribed(p)
  <2>1. CASE p = <<c, "serve">>
    BY <1>5, <2>1 DEF TellUnsubscribed
  <2>2. CASE p = <<c, "read">>
    BY <1>5, <2>2, ZenonT(40) DEF TellUnsubscribed
  <2>3. CASE p = <<c, "maint">>
    BY <1>5, <2>3, ZenonT(40) DEF TellUnsubscribed
  <2>4. QED
    BY <1>0, <2>1, <2>2, <2>3
<1>6. QED
  BY <1>1, <1>2, <1>3, <1>4, <1>5 DEF LeaveNext

LEMMA InitOnce == Init => Once
<1> SUFFICES ASSUME Init PROVE Once
  OBVIOUS
<1>1. TypeOK
  BY InitTyped
<1>2. ASSUME NEW c \in Conn
      PROVE  OnceAt(c)
  BY <1>1, <1>2 DEF Init, OnceAt, Roles, Named, JoinsAnew, StaysLeft, Listed,
     Unregistered, Joining, Arriving, Gone
<1>3. QED
  BY <1>1, <1>2 DEF Once

LEMMA NextOnce ==
  ASSUME Resubscribes = FALSE, Once, [Next]_vars
  PROVE  Once'
<1>1. TypeOK'
  BY NextTyped DEF Once
<1>2. ASSUME NEW c \in Conn
      PROVE  OnceAt(c)'
  <2> USE DEF Once
  <2>1. CASE UNCHANGED vars
    BY <2>1, UntouchedKeeps DEF vars, Untouched, Rests
  <2>2. ASSUME NEW d \in Conn, ServeNext(d) \/ ReadNext(d) \/ MaintNext(d)
        PROVE  OnceAt(c)'
    <3>1. CASE d = c
      BY <2>2, <3>1, ServeOnce, ReadOnce, MaintOnce
    <3>2. CASE d # c
      BY <2>2, <3>2, ServeElsewhere, ReadElsewhere, MaintElsewhere, UntouchedKeeps
    <3>3. QED
      BY <3>1, <3>2
  <2>3. ASSUME NEW p \in Proc, LeaveNext(p)
        PROVE  OnceAt(c)'
    <3>1. CASE p[1] = c
      BY <2>3, <3>1, LeaveOnce
    <3>2. CASE p[1] # c
      BY <2>3, <3>2, LeaveElsewhere, UntouchedKeeps
    <3>3. QED
      BY <3>1, <3>2
  <2>4. ASSUME ShutdownNext \/ \E d \in Conn : CloseConn(d) \/ Environment(d)
        PROVE  OnceAt(c)'
    BY <2>4, OtherElsewhere, UntouchedKeeps
  <2>5. QED
    BY <2>1, <2>2, <2>3, <2>4 DEF Next
<1>3. QED
  BY <1>1, <1>2 DEF Once

\* Hub.remove: when a client names a board at most once on a connection, the
\* connection's list always leads remove to every room the hub's map has it in,
\* so once serve has returned the hub knows the connection no more.
THEOREM HubEndedIsForgotten ==
  ASSUME Resubscribes = FALSE
  PROVE  Spec => []EndedIsForgotten
<1>1. Once => EndedIsForgotten
  BY DEF Once, OnceAt, Listed, Unregistered, EndedIsForgotten
<1>2. Once /\ [Next]_vars => Once'
  BY NextOnce
<1>3. QED
  BY <1>1, <1>2, InitOnce, PTL DEF Spec

-----------------------------------------------------------------------------
(* The counts. *)

\* A step that moves no reference and no count.
LEMMA QuietExact ==
  ASSUME RefsExact, Quiet
  PROVE  RefsExact'
<1> SUFFICES ASSUME NEW r \in Room
             PROVE  subs'[r] <= Cardinality(Refs(r))'
  BY DEF RefsExact
<1>1. Refs(r)' = Refs(r)
  BY DEF Quiet, Refs
<1>2. QED
  BY <1>1 DEF Quiet, RefsExact

\* A join that counts itself in was not counted yet.
LEMMA ExactIn ==
  ASSUME TypeOK, RefsExact, NEW p \in Proc,
         pc[p] \notin {"joinAdd", "release"},
         pc' = [pc EXCEPT ![p] = "joinAdd"],
         subs' = [subs EXCEPT ![at[p]] = @ + 1],
         UNCHANGED <<rooms, at>>
  PROVE  RefsExact'
<1> SUFFICES ASSUME NEW r \in Room
             PROVE  subs'[r] <= Cardinality(Refs(r))'
  BY DEF RefsExact
<1>1. \A q \in Proc : Carries(q, r)' <=> Carries(q, r) \/ (q = p /\ at[p] = r)
  BY DEF TypeOK, Carries
<1>2. IsFiniteSet(Refs(r)) /\ Cardinality(Refs(r)) \in Nat
  BY RefsFinite, FS_CardinalityType
<1>3. subs[r] <= Cardinality(Refs(r)) /\ subs[r] \in Nat
  BY DEF RefsExact, TypeOK
<1>4. CASE at[p] = r
  <2>1. Refs(r)' = Refs(r) \cup {p} /\ p \notin Refs(r)
    BY <1>1, <1>4 DEF Refs, Carries
  <2>2. Cardinality(Refs(r) \cup {p}) = Cardinality(Refs(r)) + 1
    BY <1>2, <2>1, FS_AddElement
  <2>3. subs'[r] = subs[r] + 1
    BY <1>4 DEF TypeOK
  <2>4. QED
    BY <1>2, <1>3, <2>1, <2>2, <2>3
<1>5. CASE at[p] # r
  <2>1. Refs(r)' = Refs(r)
    BY <1>1, <1>5 DEF Refs
  <2>2. subs'[r] = subs[r]
    BY <1>5 DEF TypeOK
  <2>3. QED
    BY <1>3, <2>1, <2>2
<1>6. QED
  BY <1>4, <1>5

\* The membership a join adds is a new one: it takes the place of the reference
\* the joining goroutine carried.
LEMMA ExactMoveIn ==
  ASSUME TypeOK, RefsExact, NEW c \in Conn, NEW p \in Proc,
         pc[p] = "joinAdd", c \notin rooms[at[p]],
         pc' = [pc EXCEPT ![p] = "remember"],
         rooms' = [rooms EXCEPT ![at[p]] = @ \cup {c}],
         UNCHANGED <<subs, at>>
  PROVE  RefsExact'
<1> SUFFICES ASSUME NEW r \in Room
             PROVE  subs[r] <= Cardinality(Refs(r))'
  BY DEF RefsExact
<1>1. \A q \in Proc : Carries(q, r)' <=> Carries(q, r) /\ q # p
  BY DEF TypeOK, Carries
<1>2. IsFiniteSet(Refs(r)) /\ Cardinality(Refs(r)) \in Nat
  BY RefsFinite, FS_CardinalityType
<1>3. subs[r] <= Cardinality(Refs(r)) /\ subs[r] \in Nat
  BY DEF RefsExact, TypeOK
<1>4. CASE at[p] = r
  <2>1. rooms'[r] = rooms[r] \cup {c}
    BY <1>4 DEF TypeOK
  <2>2. p \notin {<<d, "room">> : d \in rooms[r] \cup {c}}
    OBVIOUS
  <2>3. Refs(r)' = (Refs(r) \ {p}) \cup {<<c, "room">>}
    BY <1>1, <2>1, <2>2 DEF Refs
  <2>4. p \in Refs(r) /\ <<c, "room">> \notin Refs(r) \ {p}
    BY <1>4 DEF Refs, Carries
  <2>5. IsFiniteSet(Refs(r) \ {p})
        /\ Cardinality(Refs(r) \ {p}) = Cardinality(Refs(r)) - 1
    BY <1>2, <2>4, FS_RemoveElement
  <2>6. Cardinality((Refs(r) \ {p}) \cup {<<c, "room">>}) = Cardinality(Refs(r) \ {p}) + 1
    BY <2>4, <2>5, FS_AddElement
  <2>7. QED
    BY <1>2, <1>3, <2>3, <2>5, <2>6
<1>5. CASE at[p] # r
  <2>1. rooms'[r] = rooms[r]
    BY <1>5 DEF TypeOK
  <2>2. \A q \in Proc : Carries(q, r)' <=> Carries(q, r)
    BY <1>1, <1>5 DEF Carries
  <2>3. Refs(r)' = Refs(r)
    BY <2>1, <2>2 DEF Refs
  <2>4. QED
    BY <1>3, <2>3
<1>6. QED
  BY <1>4, <1>5

\* The goroutine that takes a membership out of the map carries it from there.
LEMMA ExactMoveOut ==
  ASSUME TypeOK, RefsExact, NEW c \in Conn, NEW p \in Proc,
         pc[p] = "leave", c \in rooms[at[p]],
         pc' = [pc EXCEPT ![p] = "release"],
         rooms' = [rooms EXCEPT ![at[p]] = @ \ {c}],
         UNCHANGED <<subs, at>>
  PROVE  RefsExact'
<1> SUFFICES ASSUME NEW r \in Room
             PROVE  subs[r] <= Cardinality(Refs(r))'
  BY DEF RefsExact
<1>1. \A q \in Proc : Carries(q, r)' <=> Carries(q, r) \/ (q = p /\ at[p] = r)
  BY DEF TypeOK, Carries
<1>2. IsFiniteSet(Refs(r)) /\ Cardinality(Refs(r)) \in Nat
  BY RefsFinite, FS_CardinalityType
<1>3. subs[r] <= Cardinality(Refs(r)) /\ subs[r] \in Nat
  BY DEF RefsExact, TypeOK
<1>4. CASE at[p] = r
  <2>1. rooms'[r] = rooms[r] \ {c}
    BY <1>4 DEF TypeOK
  <2>2. <<c, "room">> \in Refs(r) /\ p \notin Refs(r) \ {<<c, "room">>}
    BY <1>4 DEF Refs, Carries
  <2>3. Refs(r)' = (Refs(r) \ {<<c, "room">>}) \cup {p}
    <3>1. {<<d, "room">> : d \in rooms[r] \ {c}}
            = {<<d, "room">> : d \in rooms[r]} \ {<<c, "room">>}
      OBVIOUS
    <3>2. <<c, "room">> \notin Proc
      OBVIOUS
    <3>3. {q \in Proc : Carries(q, r)'} = {q \in Proc : Carries(q, r)} \cup {p}
      BY <1>1, <1>4
    <3>4. Refs(r)' = {<<d, "room">> : d \in rooms'[r]} \cup {q \in Proc : Carries(q, r)'}
      BY DEF Refs
    <3>5. QED
      BY <2>1, <3>1, <3>2, <3>3, <3>4 DEF Refs
  <2>4. IsFiniteSet(Refs(r) \ {<<c, "room">>})
        /\ Cardinality(Refs(r) \ {<<c, "room">>}) = Cardinality(Refs(r)) - 1
    BY <1>2, <2>2, FS_RemoveElement
  <2>5. Cardinality((Refs(r) \ {<<c, "room">>}) \cup {p})
          = Cardinality(Refs(r) \ {<<c, "room">>}) + 1
    BY <2>2, <2>4, FS_AddElement
  <2>6. QED
    BY <1>2, <1>3, <2>3, <2>4, <2>5
<1>5. CASE at[p] # r
  <2>1. rooms'[r] = rooms[r]
    BY <1>5 DEF TypeOK
  <2>2. Refs(r)' = Refs(r)
    BY <1>1, <1>5, <2>1 DEF Refs
  <2>3. QED
    BY <1>3, <2>2
<1>6. QED
  BY <1>4, <1>5

\* A leaver takes its own reference with it, and one off the count.
LEMMA ExactOut ==
  ASSUME TypeOK, RefsExact, NEW p \in Proc, NEW label \in PC \ {"joinAdd", "release"},
         pc[p] = "release",
         pc' = [pc EXCEPT ![p] = label],
         subs' = [subs EXCEPT ![at[p]] = IF subs[at[p]] - 1 <= 0 THEN 0
                                                               ELSE subs[at[p]] - 1],
         UNCHANGED <<rooms, at>>
  PROVE  RefsExact'
<1> SUFFICES ASSUME NEW r \in Room
             PROVE  subs'[r] <= Cardinality(Refs(r))'
  BY DEF RefsExact
<1>1. \A q \in Proc : Carries(q, r)' <=> Carries(q, r) /\ q # p
  BY DEF TypeOK, Carries
<1>2. IsFiniteSet(Refs(r)) /\ Cardinality(Refs(r)) \in Nat
  BY RefsFinite, FS_CardinalityType
<1>3. subs[r] <= Cardinality(Refs(r)) /\ subs[r] \in Nat
  BY DEF RefsExact, TypeOK
<1>4. CASE at[p] = r
  <2>1. p \in Refs(r) /\ \A d \in Conn : p # <<d, "room">>
    BY <1>4 DEF Refs, Carries
  <2>2. Refs(r)' = Refs(r) \ {p}
    BY <1>1, <2>1 DEF Refs, TypeOK
  <2>3. Cardinality(Refs(r) \ {p}) = Cardinality(Refs(r)) - 1
        /\ Cardinality(Refs(r) \ {p}) \in Nat
    BY <1>2, <2>1, FS_RemoveElement, FS_CardinalityType
  <2>4. subs'[r] = IF subs[r] - 1 <= 0 THEN 0 ELSE subs[r] - 1
    BY <1>4 DEF TypeOK
  <2>5. QED
    BY <1>2, <1>3, <2>2, <2>3, <2>4
<1>5. CASE at[p] # r
  <2>1. \A q \in Proc : Carries(q, r)' <=> Carries(q, r)
    BY <1>1, <1>5 DEF Carries
  <2>2. Refs(r)' = Refs(r)
    BY <2>1 DEF Refs
  <2>3. subs'[r] = subs[r]
    BY <1>5 DEF TypeOK
  <2>4. QED
    BY <1>3, <2>2, <2>3
<1>6. QED
  BY <1>4, <1>5

\* readPump: a join counts itself in once and becomes one new membership.
LEMMA ReadExact ==
  ASSUME TypeOK, RefsExact, NEW c \in Conn, JoinsAnew(c), ReadNext(c)
  PROVE  RefsExact'
<1>p. <<c, "read">> \in Proc
  OBVIOUS
<1>1. ASSUME NEW r \in Room, ReadSubscribe(c, r)
      PROVE  Quiet
  <2>1. UNCHANGED <<rooms, subs>> /\ pc[<<c, "read">>] = "reading"
    BY <1>1 DEF ReadSubscribe, hubVars
  <2>2. CASE r \in held[c]
    BY <1>1, <2>1, <2>2 DEF ReadSubscribe, Quiet, Carries
  <2>3. CASE r \notin held[c]
    <3>1. pc' = [pc EXCEPT ![<<c, "read">>] = "authorize"]
          /\ at' = [at EXCEPT ![<<c, "read">>] = r]
      BY <1>1, <2>3 DEF ReadSubscribe
    <3>2. QED
      BY <2>1, <3>1, EmptyHanded DEF TypeOK, PC
  <2>4. QED
    BY <2>2, <2>3
<1>2. ASSUME NEW r \in Room, ReadUnsubscribe(c, r)
      PROVE  Quiet
  BY <1>2, EmptyHanded DEF TypeOK, ReadUnsubscribe, hubVars, PC
<1>3. CASE SubscribeAllowed(c) \/ SubscribeRefused(c) \/ JoinCheck(c) \/ JoinFirst(c)
           \/ JoinFail(c) \/ RememberRoom(c) \/ Acknowledge(c) \/ ReadEnd(c)
  <2>1. PICK label \in {"join", "reading", "joinLock", "joinAck", "acknowledge", "done"} :
          pc' = [pc EXCEPT ![<<c, "read">>] = label]
    BY <1>3 DEF SubscribeAllowed, SubscribeRefused, JoinCheck, JoinFirst, JoinFail,
       RememberRoom, Acknowledge, ReadEnd
  <2>2. /\ pc[<<c, "read">>] \notin {"joinAdd", "release"}
        /\ UNCHANGED <<rooms, subs, at>>
    BY <1>3 DEF SubscribeAllowed, SubscribeRefused, JoinCheck, JoinFirst, JoinFail,
       RememberRoom, Acknowledge, ReadEnd, hubVars
  <2>3. QED
    BY <2>1, <2>2, EmptyHanded, QuietExact DEF PC
<1>4. CASE JoinCounted(c)
  BY <1>4, <1>p, ExactIn DEF JoinCounted
<1>5. CASE JoinAck(c)
  BY <1>5, <1>p, ExactIn DEF JoinAck
<1>6. CASE JoinAdd(c)
  <2>1. c \notin rooms[at[<<c, "read">>]]
    BY <1>6 DEF JoinAdd, JoinsAnew, Joining
  <2>2. QED
    BY <1>6, <1>p, <2>1, ExactMoveIn DEF JoinAdd
<1>7. QED
  BY <1>1, <1>2, <1>3, <1>4, <1>5, <1>6, QuietExact DEF ReadNext

\* A departure carries the membership it removed to the count.
LEMMA LeaveExact ==
  ASSUME TypeOK, RefsExact, NEW p \in Proc, LeaveNext(p)
  PROVE  RefsExact'
<1>0. p[1] \in Conn /\ AfterLeave(p) \in {"cleanup", "forget"}
  OBVIOUS
<1>1. CASE Leave(p)
  <2>1. pc[p] = "leave" /\ UNCHANGED <<subs, at>>
        /\ rooms' = [rooms EXCEPT ![at[p]] = @ \ {p[1]}]
    BY <1>1 DEF Leave
  <2>2. CASE p[1] \in rooms[at[p]]
    <3>1. pc' = [pc EXCEPT ![p] = "release"]
      BY <1>1, <2>2 DEF Leave
    <3>2. QED
      BY <1>0, <2>1, <2>2, <3>1, ExactMoveOut
  <2>3. CASE p[1] \notin rooms[at[p]]
    <3>1. pc' = [pc EXCEPT ![p] = AfterLeave(p)]
      BY <1>1, <2>3 DEF Leave
    <3>2. rooms' = rooms
      BY <2>1, <2>3 DEF TypeOK
    <3>3. QED
      BY <1>0, <2>1, <3>1, <3>2, EmptyHanded, QuietExact DEF PC
  <2>4. QED
    BY <2>2, <2>3
<1>2. CASE Release(p)
  <2>1. PICK label \in {"unsub", "cleanup", "forget"} : pc' = [pc EXCEPT ![p] = label]
    BY <1>0, <1>2 DEF Release
  <2>2. QED
    BY <1>2, <2>1, ExactOut DEF Release, PC
<1>3. CASE Unsubscribe(p) \/ ForgetRoom(p) \/ TellUnsubscribed(p)
  <2>1. PICK label \in {"cleanup", "forget", "tell", "reading", "sweep"} :
          pc' = [pc EXCEPT ![p] = label]
    BY <1>0, <1>3 DEF Unsubscribe, ForgetRoom, TellUnsubscribed
  <2>2. pc[p] \notin {"joinAdd", "release"} /\ UNCHANGED <<rooms, subs, at>>
    BY <1>3 DEF Unsubscribe, ForgetRoom, TellUnsubscribed, hubVars
  <2>3. QED
    BY <2>1, <2>2, EmptyHanded, QuietExact DEF PC
<1>4. QED
  BY <1>1, <1>2, <1>3 DEF LeaveNext

LEMMA NextExact ==
  ASSUME RefInv, Once, RefsExact, [Next]_vars
  PROVE  RefsExact'
<1>1. CASE UNCHANGED vars
  <2>1. Quiet
    BY <1>1 DEF vars, Quiet, Carries
  <2>2. QED
    BY <2>1, QuietExact
<1>2. ASSUME NEW c \in Conn, ServeNext(c) \/ MaintNext(c) \/ CloseConn(c) \/ Environment(c)
      PROVE  RefsExact'
  BY <1>2, ServeRefs, MaintRefs, OtherRefs, QuietExact
<1>3. ASSUME NEW c \in Conn, ReadNext(c)
      PROVE  RefsExact'
  BY <1>3, ReadExact DEF Once, OnceAt
<1>4. ASSUME NEW p \in Proc, LeaveNext(p)
      PROVE  RefsExact'
  BY <1>4, LeaveExact DEF Once
<1>5. CASE ShutdownNext
  BY <1>5, OtherRefs, QuietExact
<1>6. QED
  BY <1>1, <1>2, <1>3, <1>4, <1>5 DEF Next

\* Hub.subs: when a client names a board at most once on a connection, no room
\* is counted for more than the members, joiners and leavers it has, so the last
\* of them takes the count to zero and gives the room up at the broker.
THEOREM HubRefsExact ==
  ASSUME Resubscribes = FALSE
  PROVE  Spec => []RefsExact
<1>1. Init => RefsExact
  <2> SUFFICES ASSUME Init PROVE RefsExact
    OBVIOUS
  <2>1. \A r \in Room : Refs(r) = {} /\ subs[r] = 0
    BY DEF Init, Refs, Carries
  <2>2. QED
    BY <2>1, FS_EmptySet DEF RefsExact
<1>2. Once /\ [Next]_vars => Once'
  BY NextOnce
<1>3. RefInv /\ Once /\ RefsExact /\ [Next]_vars => RefsExact'
  BY NextExact
<1>4. QED
  BY <1>1, <1>2, <1>3, InitOnce, InitRefs, NextRefs, PTL DEF Spec
=============================================================================
