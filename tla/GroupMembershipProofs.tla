------------------------ MODULE GroupMembershipProofs ------------------------
(***************************************************************************)
(* Safety of GroupMembership for any set of users, any mix of requests and *)
(* any number of messages.                                                 *)
(***************************************************************************)
EXTENDS GroupMembership, TLAPS

\* Before the group is created nobody has its id, so no handler is about it.
BeforeGroup ==
    group = "none" => knows = {} /\ \A u \in Users : pc[u] = "idle"

\* NoOrphans, and the same before the group exists.
NoRows ==
    group # "live" => Members = {} /\ keys = {} /\ receipts = {} /\ msgs = 0

\* A removal that passed the check has not hit the creator, because nobody
\* becomes creator later than the check.
CreatorSpared ==
    \A u \in Users : pc[u] \in {"rmkey", "rmmember"} => role[who[u]] # "creator"

GroupInv == TypeOK /\ BeforeGroup /\ NoRows

-----------------------------------------------------------------------------
\* The initial state: no group and no handler.
LEMMA GroupInit == Init => GroupInv /\ CreatorSpared
BY GroupConstants
   DEF Init, GroupInv, TypeOK, Targets, BeforeGroup, NoRows, CreatorSpared,
       Members, PCs, Roles

\* TypeOK is preserved by every step.
LEMMA TypeStep == TypeOK /\ [Next]_vars => TypeOK'
<1> SUFFICES ASSUME TypeOK, [Next]_vars
             PROVE  TypeOK'
    OBVIOUS
<1> USE GroupConstants
<1>1. ASSUME NEW u \in Users, NEW M \in SUBSET Users, CreateGroup(u, M)
      PROVE  TypeOK'
  BY <1>1 DEF CreateGroup, Goto, TypeOK, Targets, PCs, Roles
<1>2. ASSUME NEW u \in Users, NEW M \in SUBSET Users, CreateGroupFails(u, M)
      PROVE  TypeOK'
  BY <1>2 DEF CreateGroupFails, locals, TypeOK, Targets, PCs, Roles
<1>3. ASSUME NEW u \in Users, RequestKey(u) PROVE TypeOK'
  BY <1>3 DEF RequestKey, Begin, Ready, Goto, tables, TypeOK, Targets, PCs,
              Roles
<1>4. ASSUME NEW u \in Users, RequestLeave(u) PROVE TypeOK'
  BY <1>4 DEF RequestLeave, Begin, Ready, Goto, tables, TypeOK, Targets, PCs,
              Roles
<1>5. ASSUME NEW u \in Users, RequestInfo(u) PROVE TypeOK'
  BY <1>5 DEF RequestInfo, Begin, Ready, Goto, tables, TypeOK, Targets, PCs,
              Roles
<1>6. ASSUME NEW u \in Users, RequestMessage(u) PROVE TypeOK'
  BY <1>6 DEF RequestMessage, Begin, Ready, Goto, tables, TypeOK, Targets, PCs,
              Roles
<1>7. ASSUME NEW u \in Users, RequestDelete(u) PROVE TypeOK'
  BY <1>7 DEF RequestDelete, Begin, Ready, Goto, tables, TypeOK, Targets, PCs,
              Roles
<1>8. ASSUME NEW u \in Users, CreateReply(u) PROVE TypeOK'
  BY <1>8 DEF CreateReply, Done, Goto, tables, TypeOK, Targets, PCs, Roles
<1>9. ASSUME NEW u \in Users, LookupMember(u) PROVE TypeOK'
  BY <1>9 DEF LookupMember, Goto, tables, TypeOK, Targets, PCs, Roles
<1>10. ASSUME NEW u \in Users, AddMember(u) PROVE TypeOK'
  BY <1>10 DEF AddMember, Goto, Live, locals, TypeOK, Targets, PCs, Roles
<1>11. ASSUME NEW u \in Users, SaveKey(u) PROVE TypeOK'
  BY <1>11 DEF SaveKey, Goto, Live, locals, TypeOK, Targets, PCs, Roles
<1>12. ASSUME NEW u \in Users, Announce(u) PROVE TypeOK'
  BY <1>12 DEF Announce, Done, Goto, tables, TypeOK, Targets, PCs, Roles
<1>13. ASSUME NEW u \in Users, CheckTarget(u) PROVE TypeOK'
  BY <1>13 DEF CheckTarget, Goto, MayRemove, tables, locals, TypeOK, Targets,
               PCs, Roles
<1>14. ASSUME NEW u \in Users, RefuseTarget(u) PROVE TypeOK'
  BY <1>14 DEF RefuseTarget, Done, MayRemove, Goto, tables, TypeOK, Targets,
               PCs, Roles
<1>15. ASSUME NEW u \in Users, RemoveMember(u) PROVE TypeOK'
  BY <1>15 DEF RemoveMember, Goto, DeleteKeyRow, DeleteMemberRow, locals,
               TypeOK, Targets, PCs, Roles
<1>16. ASSUME NEW u \in Users, DeleteReceiptsForMember(u) PROVE TypeOK'
  BY <1>16 DEF DeleteReceiptsForMember, Goto, locals, TypeOK, Targets, PCs,
               Roles
<1>17. ASSUME NEW u \in Users, TellLeft(u) PROVE TypeOK'
  BY <1>17 DEF TellLeft, Done, Goto, tables, TypeOK, Targets, PCs, Roles
<1>18. ASSUME NEW u \in Users, CheckAdmin(u) PROVE TypeOK'
  BY <1>18 DEF CheckAdmin, Goto, tables, locals, TypeOK, Targets, PCs, Roles
<1>19. ASSUME NEW u \in Users, RefuseRevoke(u) PROVE TypeOK'
  BY <1>19 DEF RefuseRevoke, Done, Goto, tables, TypeOK, Targets, PCs, Roles
<1>20. ASSUME NEW u \in Users, UpdateRole(u) PROVE TypeOK'
  BY <1>20 DEF UpdateRole, Goto, locals, TypeOK, Targets, PCs, Roles
<1>21. ASSUME NEW u \in Users, GetKey(u) PROVE TypeOK'
  BY <1>21 DEF GetKey, Goto, tables, locals, TypeOK, Targets, PCs, Roles
<1>22. ASSUME NEW u \in Users, RefuseKey(u) PROVE TypeOK'
  BY <1>22 DEF RefuseKey, Done, Goto, tables, TypeOK, Targets, PCs, Roles
<1>23. ASSUME NEW u \in Users, FindGroup(u) PROVE TypeOK'
  BY <1>23 DEF FindGroup, Goto, Members, Live, tables, TypeOK, Targets, PCs,
               Roles
<1>24. ASSUME NEW u \in Users, Reply(u) PROVE TypeOK'
  BY <1>24 DEF Reply, Goto, tables, locals, TypeOK, Targets, PCs, Roles
<1>25. ASSUME NEW u \in Users, FanOutDone(u) PROVE TypeOK'
  BY <1>25 DEF FanOutDone, Done, Goto, tables, TypeOK, Targets, PCs, Roles
<1>26. ASSUME NEW u \in Users, SaveMessage(u) PROVE TypeOK'
  BY <1>26 DEF SaveMessage, Goto, Live, TypeOK, Targets, PCs, Roles
<1>27. ASSUME NEW u \in Users, Snapshot(u) PROVE TypeOK'
  BY <1>27 DEF Snapshot, Goto, Members, tables, TypeOK, Targets, PCs, Roles
<1>28. ASSUME NEW u \in Users, InsertReceiptRows(u) PROVE TypeOK'
  BY <1>28 DEF InsertReceiptRows, Done, Live, Goto, TypeOK, Targets, PCs, Roles
<1>29. ASSUME NEW u \in Users, CollectMembers(u) PROVE TypeOK'
  BY <1>29 DEF CollectMembers, Goto, Members, tables, TypeOK, Targets, PCs,
               Roles
<1>30. ASSUME NEW u \in Users, DeleteGroup(u) PROVE TypeOK'
  BY <1>30 DEF DeleteGroup, Done, Goto, TypeOK, Targets, PCs, Roles
<1>31. ASSUME NEW u \in Users, HandlerThrows(u) PROVE TypeOK'
  BY <1>31 DEF HandlerThrows, Done, Throws, Live, Goto, tables, TypeOK, Targets,
               PCs, Roles
<1>32. ASSUME NEW u \in Users, NEW m \in Users, RequestAdd(u, m)
      PROVE  TypeOK'
  BY <1>32 DEF RequestAdd, Begin, Ready, Goto, tables, TypeOK, Targets, PCs,
               Roles
<1>33. ASSUME NEW u \in Users, NEW m \in Users, RequestKick(u, m)
      PROVE  TypeOK'
  BY <1>33 DEF RequestKick, Begin, Ready, Goto, tables, TypeOK, Targets, PCs,
               Roles
<1>34. ASSUME NEW u \in Users, NEW m \in Users, RequestGrant(u, m)
      PROVE  TypeOK'
  BY <1>34 DEF RequestGrant, Begin, Ready, Goto, tables, TypeOK, Targets, PCs,
               Roles
<1>35. ASSUME NEW u \in Users, NEW m \in Users, RequestRevoke(u, m)
      PROVE  TypeOK'
  BY <1>35 DEF RequestRevoke, Begin, Ready, Goto, tables, TypeOK, Targets, PCs,
               Roles
<1>36. ASSUME NEW u \in Users, NEW m \in Users, Invite(u, m)
      PROVE  TypeOK'
  BY <1>36 DEF Invite, tables, TypeOK, Targets, PCs, Roles
<1>37. ASSUME NEW u \in Users, NEW m \in Users, FanOut(u, m)
      PROVE  TypeOK'
  BY <1>37 DEF FanOut, tables, TypeOK, Targets, PCs, Roles
<1>38. ASSUME NEW u \in Users, NEW m \in Users, TellDeleted(u, m)
      PROVE  TypeOK'
  BY <1>38 DEF TellDeleted, tables, TypeOK, Targets, PCs, Roles
<1>39. CASE UNCHANGED vars
  BY <1>39 DEF vars, locals, tables, TypeOK, Targets, PCs, Roles
<1> QED
  BY <1>1, <1>2, <1>3, <1>4, <1>5, <1>6, <1>7, <1>8, <1>9, <1>10, <1>11, <1>12,
     <1>13, <1>14, <1>15, <1>16, <1>17, <1>18, <1>19, <1>20, <1>21, <1>22,
     <1>23, <1>24, <1>25, <1>26, <1>27, <1>28, <1>29, <1>30, <1>31, <1>32,
     <1>33, <1>34, <1>35, <1>36, <1>37, <1>38, <1>39
     DEF Next, Request, HandlerStep

\* The rows of the group are there only while it exists.
LEMMA RowsStep == GroupInv /\ [Next]_vars => BeforeGroup' /\ NoRows'
<1> SUFFICES ASSUME GroupInv, [Next]_vars
             PROVE  BeforeGroup' /\ NoRows'
    OBVIOUS
<1> USE GroupConstants
<1>1. ASSUME NEW u \in Users, NEW M \in SUBSET Users, CreateGroup(u, M)
      PROVE  BeforeGroup' /\ NoRows'
  BY <1>1 DEF CreateGroup, Goto, GroupInv, TypeOK, Targets, BeforeGroup, NoRows,
              Members
<1>2. ASSUME NEW u \in Users, NEW M \in SUBSET Users, CreateGroupFails(u, M)
      PROVE  BeforeGroup' /\ NoRows'
  BY <1>2 DEF CreateGroupFails, locals, GroupInv, TypeOK, Targets, BeforeGroup,
              NoRows, Members
<1>3. ASSUME NEW u \in Users, RequestKey(u) PROVE BeforeGroup' /\ NoRows'
  BY <1>3 DEF RequestKey, Begin, Ready, Goto, tables, GroupInv, TypeOK, Targets,
              BeforeGroup, NoRows, Members
<1>4. ASSUME NEW u \in Users, RequestLeave(u) PROVE BeforeGroup' /\ NoRows'
  BY <1>4 DEF RequestLeave, Begin, Ready, Goto, tables, GroupInv, TypeOK,
              Targets, BeforeGroup, NoRows, Members
<1>5. ASSUME NEW u \in Users, RequestInfo(u) PROVE BeforeGroup' /\ NoRows'
  BY <1>5 DEF RequestInfo, Begin, Ready, Goto, tables, GroupInv, TypeOK,
              Targets, BeforeGroup, NoRows, Members
<1>6. ASSUME NEW u \in Users, RequestMessage(u) PROVE BeforeGroup' /\ NoRows'
  BY <1>6 DEF RequestMessage, Begin, Ready, Goto, tables, GroupInv, TypeOK,
              Targets, BeforeGroup, NoRows, Members
<1>7. ASSUME NEW u \in Users, RequestDelete(u) PROVE BeforeGroup' /\ NoRows'
  BY <1>7 DEF RequestDelete, Begin, Ready, Goto, tables, GroupInv, TypeOK,
              Targets, BeforeGroup, NoRows, Members
<1>8. ASSUME NEW u \in Users, CreateReply(u) PROVE BeforeGroup' /\ NoRows'
  BY <1>8 DEF CreateReply, Done, Goto, tables, GroupInv, TypeOK, Targets,
              BeforeGroup, NoRows, Members
<1>9. ASSUME NEW u \in Users, LookupMember(u) PROVE BeforeGroup' /\ NoRows'
  BY <1>9 DEF LookupMember, Goto, tables, GroupInv, TypeOK, Targets,
              BeforeGroup, NoRows, Members
<1>10. ASSUME NEW u \in Users, AddMember(u) PROVE BeforeGroup' /\ NoRows'
  BY <1>10 DEF AddMember, Goto, Live, locals, GroupInv, TypeOK, Targets,
               BeforeGroup, NoRows, Members
<1>11. ASSUME NEW u \in Users, SaveKey(u) PROVE BeforeGroup' /\ NoRows'
  BY <1>11 DEF SaveKey, Goto, Live, locals, GroupInv, TypeOK, Targets,
               BeforeGroup, NoRows, Members
<1>12. ASSUME NEW u \in Users, Announce(u) PROVE BeforeGroup' /\ NoRows'
  BY <1>12 DEF Announce, Done, Goto, tables, GroupInv, TypeOK, Targets,
               BeforeGroup, NoRows, Members
<1>13. ASSUME NEW u \in Users, CheckTarget(u) PROVE BeforeGroup' /\ NoRows'
  BY <1>13 DEF CheckTarget, Goto, MayRemove, tables, locals, GroupInv, TypeOK,
               Targets, BeforeGroup, NoRows, Members
<1>14. ASSUME NEW u \in Users, RefuseTarget(u) PROVE BeforeGroup' /\ NoRows'
  BY <1>14 DEF RefuseTarget, Done, MayRemove, Goto, tables, GroupInv, TypeOK,
               Targets, BeforeGroup, NoRows, Members
<1>15. ASSUME NEW u \in Users, RemoveMember(u) PROVE BeforeGroup' /\ NoRows'
  BY <1>15 DEF RemoveMember, Goto, DeleteKeyRow, DeleteMemberRow, locals,
               GroupInv, TypeOK, Targets, BeforeGroup, NoRows, Members
<1>16. ASSUME NEW u \in Users, DeleteReceiptsForMember(u) PROVE BeforeGroup' /\ NoRows'
  BY <1>16 DEF DeleteReceiptsForMember, Goto, locals, GroupInv, TypeOK, Targets,
               BeforeGroup, NoRows, Members
<1>17. ASSUME NEW u \in Users, TellLeft(u) PROVE BeforeGroup' /\ NoRows'
  BY <1>17 DEF TellLeft, Done, Goto, tables, GroupInv, TypeOK, Targets,
               BeforeGroup, NoRows, Members
<1>18. ASSUME NEW u \in Users, CheckAdmin(u) PROVE BeforeGroup' /\ NoRows'
  BY <1>18 DEF CheckAdmin, Goto, tables, locals, GroupInv, TypeOK, Targets,
               BeforeGroup, NoRows, Members
<1>19. ASSUME NEW u \in Users, RefuseRevoke(u) PROVE BeforeGroup' /\ NoRows'
  BY <1>19 DEF RefuseRevoke, Done, Goto, tables, GroupInv, TypeOK, Targets,
               BeforeGroup, NoRows, Members
<1>20. ASSUME NEW u \in Users, UpdateRole(u) PROVE BeforeGroup' /\ NoRows'
  BY <1>20 DEF UpdateRole, Goto, locals, GroupInv, TypeOK, Targets, BeforeGroup,
               NoRows, Members
<1>21. ASSUME NEW u \in Users, GetKey(u) PROVE BeforeGroup' /\ NoRows'
  BY <1>21 DEF GetKey, Goto, tables, locals, GroupInv, TypeOK, Targets,
               BeforeGroup, NoRows, Members
<1>22. ASSUME NEW u \in Users, RefuseKey(u) PROVE BeforeGroup' /\ NoRows'
  BY <1>22 DEF RefuseKey, Done, Goto, tables, GroupInv, TypeOK, Targets,
               BeforeGroup, NoRows, Members
<1>23. ASSUME NEW u \in Users, FindGroup(u) PROVE BeforeGroup' /\ NoRows'
  BY <1>23 DEF FindGroup, Goto, Members, Live, tables, GroupInv, TypeOK,
               Targets, BeforeGroup, NoRows, Members
<1>24. ASSUME NEW u \in Users, Reply(u) PROVE BeforeGroup' /\ NoRows'
  BY <1>24 DEF Reply, Goto, tables, locals, GroupInv, TypeOK, Targets,
               BeforeGroup, NoRows, Members
<1>25. ASSUME NEW u \in Users, FanOutDone(u) PROVE BeforeGroup' /\ NoRows'
  BY <1>25 DEF FanOutDone, Done, Goto, tables, GroupInv, TypeOK, Targets,
               BeforeGroup, NoRows, Members
<1>26. ASSUME NEW u \in Users, SaveMessage(u) PROVE BeforeGroup' /\ NoRows'
  BY <1>26 DEF SaveMessage, Goto, Live, GroupInv, TypeOK, Targets, BeforeGroup,
               NoRows, Members
<1>27. ASSUME NEW u \in Users, Snapshot(u) PROVE BeforeGroup' /\ NoRows'
  BY <1>27 DEF Snapshot, Goto, Members, tables, GroupInv, TypeOK, Targets,
               BeforeGroup, NoRows, Members
<1>28. ASSUME NEW u \in Users, InsertReceiptRows(u) PROVE BeforeGroup' /\ NoRows'
  BY <1>28 DEF InsertReceiptRows, Done, Live, Goto, GroupInv, TypeOK, Targets,
               BeforeGroup, NoRows, Members
<1>29. ASSUME NEW u \in Users, CollectMembers(u) PROVE BeforeGroup' /\ NoRows'
  BY <1>29 DEF CollectMembers, Goto, Members, tables, GroupInv, TypeOK, Targets,
               BeforeGroup, NoRows, Members
<1>30. ASSUME NEW u \in Users, DeleteGroup(u) PROVE BeforeGroup' /\ NoRows'
  BY <1>30 DEF DeleteGroup, Done, Goto, GroupInv, TypeOK, Targets, BeforeGroup,
               NoRows, Members
<1>31. ASSUME NEW u \in Users, HandlerThrows(u) PROVE BeforeGroup' /\ NoRows'
  BY <1>31 DEF HandlerThrows, Done, Throws, Live, Goto, tables, GroupInv,
               TypeOK, Targets, BeforeGroup, NoRows, Members
<1>32. ASSUME NEW u \in Users, NEW m \in Users, RequestAdd(u, m)
      PROVE  BeforeGroup' /\ NoRows'
  BY <1>32 DEF RequestAdd, Begin, Ready, Goto, tables, GroupInv, TypeOK,
               Targets, BeforeGroup, NoRows, Members
<1>33. ASSUME NEW u \in Users, NEW m \in Users, RequestKick(u, m)
      PROVE  BeforeGroup' /\ NoRows'
  BY <1>33 DEF RequestKick, Begin, Ready, Goto, tables, GroupInv, TypeOK,
               Targets, BeforeGroup, NoRows, Members
<1>34. ASSUME NEW u \in Users, NEW m \in Users, RequestGrant(u, m)
      PROVE  BeforeGroup' /\ NoRows'
  BY <1>34 DEF RequestGrant, Begin, Ready, Goto, tables, GroupInv, TypeOK,
               Targets, BeforeGroup, NoRows, Members
<1>35. ASSUME NEW u \in Users, NEW m \in Users, RequestRevoke(u, m)
      PROVE  BeforeGroup' /\ NoRows'
  BY <1>35 DEF RequestRevoke, Begin, Ready, Goto, tables, GroupInv, TypeOK,
               Targets, BeforeGroup, NoRows, Members
<1>36. ASSUME NEW u \in Users, NEW m \in Users, Invite(u, m)
      PROVE  BeforeGroup' /\ NoRows'
  BY <1>36 DEF Invite, tables, GroupInv, TypeOK, Targets, BeforeGroup, NoRows,
               Members
<1>37. ASSUME NEW u \in Users, NEW m \in Users, FanOut(u, m)
      PROVE  BeforeGroup' /\ NoRows'
  BY <1>37 DEF FanOut, tables, GroupInv, TypeOK, Targets, BeforeGroup, NoRows,
               Members
<1>38. ASSUME NEW u \in Users, NEW m \in Users, TellDeleted(u, m)
      PROVE  BeforeGroup' /\ NoRows'
  BY <1>38 DEF TellDeleted, tables, GroupInv, TypeOK, Targets, BeforeGroup,
               NoRows, Members
<1>39. CASE UNCHANGED vars
  BY <1>39 DEF vars, locals, tables, GroupInv, TypeOK, Targets, BeforeGroup,
               NoRows, Members
<1> QED
  BY <1>1, <1>2, <1>3, <1>4, <1>5, <1>6, <1>7, <1>8, <1>9, <1>10, <1>11, <1>12,
     <1>13, <1>14, <1>15, <1>16, <1>17, <1>18, <1>19, <1>20, <1>21, <1>22,
     <1>23, <1>24, <1>25, <1>26, <1>27, <1>28, <1>29, <1>30, <1>31, <1>32,
     <1>33, <1>34, <1>35, <1>36, <1>37, <1>38, <1>39
     DEF Next, Request, HandlerStep

\* The creator stays spared.
LEMMA SparedStep == GroupInv /\ CreatorSpared /\ [Next]_vars => CreatorSpared'
<1> SUFFICES ASSUME GroupInv, CreatorSpared, [Next]_vars
             PROVE  CreatorSpared'
    OBVIOUS
<1> USE GroupConstants
<1>1. ASSUME NEW u \in Users, NEW M \in SUBSET Users, CreateGroup(u, M)
      PROVE  CreatorSpared'
  BY <1>1 DEF CreateGroup, Goto, GroupInv, TypeOK, Targets, BeforeGroup,
              CreatorSpared
<1>2. ASSUME NEW u \in Users, NEW M \in SUBSET Users, CreateGroupFails(u, M)
      PROVE  CreatorSpared'
  BY <1>2 DEF CreateGroupFails, locals, GroupInv, TypeOK, Targets, BeforeGroup,
              CreatorSpared
<1>3. ASSUME NEW u \in Users, RequestKey(u) PROVE CreatorSpared'
  BY <1>3 DEF RequestKey, Begin, Ready, Goto, tables, GroupInv, TypeOK, Targets,
              BeforeGroup, CreatorSpared
<1>4. ASSUME NEW u \in Users, RequestLeave(u) PROVE CreatorSpared'
  BY <1>4 DEF RequestLeave, Begin, Ready, Goto, tables, GroupInv, TypeOK,
              Targets, BeforeGroup, CreatorSpared
<1>5. ASSUME NEW u \in Users, RequestInfo(u) PROVE CreatorSpared'
  BY <1>5 DEF RequestInfo, Begin, Ready, Goto, tables, GroupInv, TypeOK,
              Targets, BeforeGroup, CreatorSpared
<1>6. ASSUME NEW u \in Users, RequestMessage(u) PROVE CreatorSpared'
  BY <1>6 DEF RequestMessage, Begin, Ready, Goto, tables, GroupInv, TypeOK,
              Targets, BeforeGroup, CreatorSpared
<1>7. ASSUME NEW u \in Users, RequestDelete(u) PROVE CreatorSpared'
  BY <1>7 DEF RequestDelete, Begin, Ready, Goto, tables, GroupInv, TypeOK,
              Targets, BeforeGroup, CreatorSpared
<1>8. ASSUME NEW u \in Users, CreateReply(u) PROVE CreatorSpared'
  BY <1>8 DEF CreateReply, Done, Goto, tables, GroupInv, TypeOK, Targets,
              BeforeGroup, CreatorSpared
<1>9. ASSUME NEW u \in Users, LookupMember(u) PROVE CreatorSpared'
  BY <1>9 DEF LookupMember, Goto, tables, GroupInv, TypeOK, Targets,
              BeforeGroup, CreatorSpared
<1>10. ASSUME NEW u \in Users, AddMember(u) PROVE CreatorSpared'
  BY <1>10 DEF AddMember, Goto, Live, locals, GroupInv, TypeOK, Targets,
               BeforeGroup, CreatorSpared
<1>11. ASSUME NEW u \in Users, SaveKey(u) PROVE CreatorSpared'
  BY <1>11 DEF SaveKey, Goto, Live, locals, GroupInv, TypeOK, Targets,
               BeforeGroup, CreatorSpared
<1>12. ASSUME NEW u \in Users, Announce(u) PROVE CreatorSpared'
  BY <1>12 DEF Announce, Done, Goto, tables, GroupInv, TypeOK, Targets,
               BeforeGroup, CreatorSpared
<1>13. ASSUME NEW u \in Users, CheckTarget(u) PROVE CreatorSpared'
  BY <1>13 DEF CheckTarget, Goto, MayRemove, tables, locals, GroupInv, TypeOK,
               Targets, BeforeGroup, CreatorSpared
<1>14. ASSUME NEW u \in Users, RefuseTarget(u) PROVE CreatorSpared'
  BY <1>14 DEF RefuseTarget, Done, MayRemove, Goto, tables, GroupInv, TypeOK,
               Targets, BeforeGroup, CreatorSpared
<1>15. ASSUME NEW u \in Users, RemoveMember(u) PROVE CreatorSpared'
  BY <1>15 DEF RemoveMember, Goto, DeleteKeyRow, DeleteMemberRow, locals,
               GroupInv, TypeOK, Targets, BeforeGroup, CreatorSpared
<1>16. ASSUME NEW u \in Users, DeleteReceiptsForMember(u) PROVE CreatorSpared'
  BY <1>16 DEF DeleteReceiptsForMember, Goto, locals, GroupInv, TypeOK, Targets,
               BeforeGroup, CreatorSpared
<1>17. ASSUME NEW u \in Users, TellLeft(u) PROVE CreatorSpared'
  BY <1>17 DEF TellLeft, Done, Goto, tables, GroupInv, TypeOK, Targets,
               BeforeGroup, CreatorSpared
<1>18. ASSUME NEW u \in Users, CheckAdmin(u) PROVE CreatorSpared'
  BY <1>18 DEF CheckAdmin, Goto, tables, locals, GroupInv, TypeOK, Targets,
               BeforeGroup, CreatorSpared
<1>19. ASSUME NEW u \in Users, RefuseRevoke(u) PROVE CreatorSpared'
  BY <1>19 DEF RefuseRevoke, Done, Goto, tables, GroupInv, TypeOK, Targets,
               BeforeGroup, CreatorSpared
<1>20. ASSUME NEW u \in Users, UpdateRole(u) PROVE CreatorSpared'
  BY <1>20 DEF UpdateRole, Goto, locals, GroupInv, TypeOK, Targets, BeforeGroup,
               CreatorSpared
<1>21. ASSUME NEW u \in Users, GetKey(u) PROVE CreatorSpared'
  BY <1>21 DEF GetKey, Goto, tables, locals, GroupInv, TypeOK, Targets,
               BeforeGroup, CreatorSpared
<1>22. ASSUME NEW u \in Users, RefuseKey(u) PROVE CreatorSpared'
  BY <1>22 DEF RefuseKey, Done, Goto, tables, GroupInv, TypeOK, Targets,
               BeforeGroup, CreatorSpared
<1>23. ASSUME NEW u \in Users, FindGroup(u) PROVE CreatorSpared'
  BY <1>23 DEF FindGroup, Goto, Members, Live, tables, GroupInv, TypeOK,
               Targets, BeforeGroup, CreatorSpared
<1>24. ASSUME NEW u \in Users, Reply(u) PROVE CreatorSpared'
  BY <1>24 DEF Reply, Goto, tables, locals, GroupInv, TypeOK, Targets,
               BeforeGroup, CreatorSpared
<1>25. ASSUME NEW u \in Users, FanOutDone(u) PROVE CreatorSpared'
  BY <1>25 DEF FanOutDone, Done, Goto, tables, GroupInv, TypeOK, Targets,
               BeforeGroup, CreatorSpared
<1>26. ASSUME NEW u \in Users, SaveMessage(u) PROVE CreatorSpared'
  BY <1>26 DEF SaveMessage, Goto, Live, GroupInv, TypeOK, Targets, BeforeGroup,
               CreatorSpared
<1>27. ASSUME NEW u \in Users, Snapshot(u) PROVE CreatorSpared'
  BY <1>27 DEF Snapshot, Goto, Members, tables, GroupInv, TypeOK, Targets,
               BeforeGroup, CreatorSpared
<1>28. ASSUME NEW u \in Users, InsertReceiptRows(u) PROVE CreatorSpared'
  BY <1>28 DEF InsertReceiptRows, Done, Live, Goto, GroupInv, TypeOK, Targets,
               BeforeGroup, CreatorSpared
<1>29. ASSUME NEW u \in Users, CollectMembers(u) PROVE CreatorSpared'
  BY <1>29 DEF CollectMembers, Goto, Members, tables, GroupInv, TypeOK, Targets,
               BeforeGroup, CreatorSpared
<1>30. ASSUME NEW u \in Users, DeleteGroup(u) PROVE CreatorSpared'
  BY <1>30 DEF DeleteGroup, Done, Goto, GroupInv, TypeOK, Targets, BeforeGroup,
               CreatorSpared
<1>31. ASSUME NEW u \in Users, HandlerThrows(u) PROVE CreatorSpared'
  BY <1>31 DEF HandlerThrows, Done, Throws, Live, Goto, tables, GroupInv,
               TypeOK, Targets, BeforeGroup, CreatorSpared
<1>32. ASSUME NEW u \in Users, NEW m \in Users, RequestAdd(u, m)
      PROVE  CreatorSpared'
  BY <1>32 DEF RequestAdd, Begin, Ready, Goto, tables, GroupInv, TypeOK,
               Targets, BeforeGroup, CreatorSpared
<1>33. ASSUME NEW u \in Users, NEW m \in Users, RequestKick(u, m)
      PROVE  CreatorSpared'
  BY <1>33 DEF RequestKick, Begin, Ready, Goto, tables, GroupInv, TypeOK,
               Targets, BeforeGroup, CreatorSpared
<1>34. ASSUME NEW u \in Users, NEW m \in Users, RequestGrant(u, m)
      PROVE  CreatorSpared'
  BY <1>34 DEF RequestGrant, Begin, Ready, Goto, tables, GroupInv, TypeOK,
               Targets, BeforeGroup, CreatorSpared
<1>35. ASSUME NEW u \in Users, NEW m \in Users, RequestRevoke(u, m)
      PROVE  CreatorSpared'
  BY <1>35 DEF RequestRevoke, Begin, Ready, Goto, tables, GroupInv, TypeOK,
               Targets, BeforeGroup, CreatorSpared
<1>36. ASSUME NEW u \in Users, NEW m \in Users, Invite(u, m)
      PROVE  CreatorSpared'
  BY <1>36 DEF Invite, tables, GroupInv, TypeOK, Targets, BeforeGroup,
               CreatorSpared
<1>37. ASSUME NEW u \in Users, NEW m \in Users, FanOut(u, m)
      PROVE  CreatorSpared'
  BY <1>37 DEF FanOut, tables, GroupInv, TypeOK, Targets, BeforeGroup,
               CreatorSpared
<1>38. ASSUME NEW u \in Users, NEW m \in Users, TellDeleted(u, m)
      PROVE  CreatorSpared'
  BY <1>38 DEF TellDeleted, tables, GroupInv, TypeOK, Targets, BeforeGroup,
               CreatorSpared
<1>39. CASE UNCHANGED vars
  BY <1>39 DEF vars, locals, tables, GroupInv, TypeOK, Targets, BeforeGroup,
               CreatorSpared
<1> QED
  BY <1>1, <1>2, <1>3, <1>4, <1>5, <1>6, <1>7, <1>8, <1>9, <1>10, <1>11, <1>12,
     <1>13, <1>14, <1>15, <1>16, <1>17, <1>18, <1>19, <1>20, <1>21, <1>22,
     <1>23, <1>24, <1>25, <1>26, <1>27, <1>28, <1>29, <1>30, <1>31, <1>32,
     <1>33, <1>34, <1>35, <1>36, <1>37, <1>38, <1>39
     DEF Next, Request, HandlerStep

\* MemberHasKey is preserved by every step.
LEMMA KeyStep == GroupInv /\ MemberHasKey /\ [Next]_vars => MemberHasKey'
<1> SUFFICES ASSUME GroupInv, MemberHasKey, [Next]_vars
             PROVE  MemberHasKey'
    OBVIOUS
<1> USE GroupConstants
<1>1. ASSUME NEW u \in Users, NEW M \in SUBSET Users, CreateGroup(u, M)
      PROVE  MemberHasKey'
  BY <1>1 DEF CreateGroup, Goto, GroupInv, TypeOK, Targets, NoRows,
              MemberHasKey, Members
<1>2. ASSUME NEW u \in Users, NEW M \in SUBSET Users, CreateGroupFails(u, M)
      PROVE  MemberHasKey'
  BY <1>2 DEF CreateGroupFails, locals, GroupInv, TypeOK, Targets, NoRows,
              MemberHasKey, Members
<1>3. ASSUME NEW u \in Users, RequestKey(u) PROVE MemberHasKey'
  BY <1>3 DEF RequestKey, Begin, Ready, Goto, tables, GroupInv, TypeOK, Targets,
              NoRows, MemberHasKey, Members
<1>4. ASSUME NEW u \in Users, RequestLeave(u) PROVE MemberHasKey'
  BY <1>4 DEF RequestLeave, Begin, Ready, Goto, tables, GroupInv, TypeOK,
              Targets, NoRows, MemberHasKey, Members
<1>5. ASSUME NEW u \in Users, RequestInfo(u) PROVE MemberHasKey'
  BY <1>5 DEF RequestInfo, Begin, Ready, Goto, tables, GroupInv, TypeOK,
              Targets, NoRows, MemberHasKey, Members
<1>6. ASSUME NEW u \in Users, RequestMessage(u) PROVE MemberHasKey'
  BY <1>6 DEF RequestMessage, Begin, Ready, Goto, tables, GroupInv, TypeOK,
              Targets, NoRows, MemberHasKey, Members
<1>7. ASSUME NEW u \in Users, RequestDelete(u) PROVE MemberHasKey'
  BY <1>7 DEF RequestDelete, Begin, Ready, Goto, tables, GroupInv, TypeOK,
              Targets, NoRows, MemberHasKey, Members
<1>8. ASSUME NEW u \in Users, CreateReply(u) PROVE MemberHasKey'
  BY <1>8 DEF CreateReply, Done, Goto, tables, GroupInv, TypeOK, Targets,
              NoRows, MemberHasKey, Members
<1>9. ASSUME NEW u \in Users, LookupMember(u) PROVE MemberHasKey'
  BY <1>9 DEF LookupMember, Goto, tables, GroupInv, TypeOK, Targets, NoRows,
              MemberHasKey, Members
<1>10. ASSUME NEW u \in Users, AddMember(u) PROVE MemberHasKey'
  BY <1>10 DEF AddMember, Goto, Live, locals, GroupInv, TypeOK, Targets, NoRows,
               MemberHasKey, Members
<1>11. ASSUME NEW u \in Users, SaveKey(u) PROVE MemberHasKey'
  BY <1>11 DEF SaveKey, Goto, Live, locals, GroupInv, TypeOK, Targets, NoRows,
               MemberHasKey, Members
<1>12. ASSUME NEW u \in Users, Announce(u) PROVE MemberHasKey'
  BY <1>12 DEF Announce, Done, Goto, tables, GroupInv, TypeOK, Targets, NoRows,
               MemberHasKey, Members
<1>13. ASSUME NEW u \in Users, CheckTarget(u) PROVE MemberHasKey'
  BY <1>13 DEF CheckTarget, Goto, MayRemove, tables, locals, GroupInv, TypeOK,
               Targets, NoRows, MemberHasKey, Members
<1>14. ASSUME NEW u \in Users, RefuseTarget(u) PROVE MemberHasKey'
  BY <1>14 DEF RefuseTarget, Done, MayRemove, Goto, tables, GroupInv, TypeOK,
               Targets, NoRows, MemberHasKey, Members
<1>15. ASSUME NEW u \in Users, RemoveMember(u) PROVE MemberHasKey'
  BY <1>15 DEF RemoveMember, Goto, DeleteKeyRow, DeleteMemberRow, locals,
               GroupInv, TypeOK, Targets, NoRows, MemberHasKey, Members
<1>16. ASSUME NEW u \in Users, DeleteReceiptsForMember(u) PROVE MemberHasKey'
  BY <1>16 DEF DeleteReceiptsForMember, Goto, locals, GroupInv, TypeOK, Targets,
               NoRows, MemberHasKey, Members
<1>17. ASSUME NEW u \in Users, TellLeft(u) PROVE MemberHasKey'
  BY <1>17 DEF TellLeft, Done, Goto, tables, GroupInv, TypeOK, Targets, NoRows,
               MemberHasKey, Members
<1>18. ASSUME NEW u \in Users, CheckAdmin(u) PROVE MemberHasKey'
  BY <1>18 DEF CheckAdmin, Goto, tables, locals, GroupInv, TypeOK, Targets,
               NoRows, MemberHasKey, Members
<1>19. ASSUME NEW u \in Users, RefuseRevoke(u) PROVE MemberHasKey'
  BY <1>19 DEF RefuseRevoke, Done, Goto, tables, GroupInv, TypeOK, Targets,
               NoRows, MemberHasKey, Members
<1>20. ASSUME NEW u \in Users, UpdateRole(u) PROVE MemberHasKey'
  BY <1>20 DEF UpdateRole, Goto, locals, GroupInv, TypeOK, Targets, NoRows,
               MemberHasKey, Members
<1>21. ASSUME NEW u \in Users, GetKey(u) PROVE MemberHasKey'
  BY <1>21 DEF GetKey, Goto, tables, locals, GroupInv, TypeOK, Targets, NoRows,
               MemberHasKey, Members
<1>22. ASSUME NEW u \in Users, RefuseKey(u) PROVE MemberHasKey'
  BY <1>22 DEF RefuseKey, Done, Goto, tables, GroupInv, TypeOK, Targets, NoRows,
               MemberHasKey, Members
<1>23. ASSUME NEW u \in Users, FindGroup(u) PROVE MemberHasKey'
  BY <1>23 DEF FindGroup, Goto, Members, Live, tables, GroupInv, TypeOK,
               Targets, NoRows, MemberHasKey, Members
<1>24. ASSUME NEW u \in Users, Reply(u) PROVE MemberHasKey'
  BY <1>24 DEF Reply, Goto, tables, locals, GroupInv, TypeOK, Targets, NoRows,
               MemberHasKey, Members
<1>25. ASSUME NEW u \in Users, FanOutDone(u) PROVE MemberHasKey'
  BY <1>25 DEF FanOutDone, Done, Goto, tables, GroupInv, TypeOK, Targets,
               NoRows, MemberHasKey, Members
<1>26. ASSUME NEW u \in Users, SaveMessage(u) PROVE MemberHasKey'
  BY <1>26 DEF SaveMessage, Goto, Live, GroupInv, TypeOK, Targets, NoRows,
               MemberHasKey, Members
<1>27. ASSUME NEW u \in Users, Snapshot(u) PROVE MemberHasKey'
  BY <1>27 DEF Snapshot, Goto, Members, tables, GroupInv, TypeOK, Targets,
               NoRows, MemberHasKey, Members
<1>28. ASSUME NEW u \in Users, InsertReceiptRows(u) PROVE MemberHasKey'
  BY <1>28 DEF InsertReceiptRows, Done, Live, Goto, GroupInv, TypeOK, Targets,
               NoRows, MemberHasKey, Members
<1>29. ASSUME NEW u \in Users, CollectMembers(u) PROVE MemberHasKey'
  BY <1>29 DEF CollectMembers, Goto, Members, tables, GroupInv, TypeOK, Targets,
               NoRows, MemberHasKey, Members
<1>30. ASSUME NEW u \in Users, DeleteGroup(u) PROVE MemberHasKey'
  BY <1>30 DEF DeleteGroup, Done, Goto, GroupInv, TypeOK, Targets, NoRows,
               MemberHasKey, Members
<1>31. ASSUME NEW u \in Users, HandlerThrows(u) PROVE MemberHasKey'
  BY <1>31 DEF HandlerThrows, Done, Throws, Live, Goto, tables, GroupInv,
               TypeOK, Targets, NoRows, MemberHasKey, Members
<1>32. ASSUME NEW u \in Users, NEW m \in Users, RequestAdd(u, m)
      PROVE  MemberHasKey'
  BY <1>32 DEF RequestAdd, Begin, Ready, Goto, tables, GroupInv, TypeOK,
               Targets, NoRows, MemberHasKey, Members
<1>33. ASSUME NEW u \in Users, NEW m \in Users, RequestKick(u, m)
      PROVE  MemberHasKey'
  BY <1>33 DEF RequestKick, Begin, Ready, Goto, tables, GroupInv, TypeOK,
               Targets, NoRows, MemberHasKey, Members
<1>34. ASSUME NEW u \in Users, NEW m \in Users, RequestGrant(u, m)
      PROVE  MemberHasKey'
  BY <1>34 DEF RequestGrant, Begin, Ready, Goto, tables, GroupInv, TypeOK,
               Targets, NoRows, MemberHasKey, Members
<1>35. ASSUME NEW u \in Users, NEW m \in Users, RequestRevoke(u, m)
      PROVE  MemberHasKey'
  BY <1>35 DEF RequestRevoke, Begin, Ready, Goto, tables, GroupInv, TypeOK,
               Targets, NoRows, MemberHasKey, Members
<1>36. ASSUME NEW u \in Users, NEW m \in Users, Invite(u, m)
      PROVE  MemberHasKey'
  BY <1>36 DEF Invite, tables, GroupInv, TypeOK, Targets, NoRows, MemberHasKey,
               Members
<1>37. ASSUME NEW u \in Users, NEW m \in Users, FanOut(u, m)
      PROVE  MemberHasKey'
  BY <1>37 DEF FanOut, tables, GroupInv, TypeOK, Targets, NoRows, MemberHasKey,
               Members
<1>38. ASSUME NEW u \in Users, NEW m \in Users, TellDeleted(u, m)
      PROVE  MemberHasKey'
  BY <1>38 DEF TellDeleted, tables, GroupInv, TypeOK, Targets, NoRows,
               MemberHasKey, Members
<1>39. CASE UNCHANGED vars
  BY <1>39 DEF vars, locals, tables, GroupInv, TypeOK, Targets, NoRows,
               MemberHasKey, Members
<1> QED
  BY <1>1, <1>2, <1>3, <1>4, <1>5, <1>6, <1>7, <1>8, <1>9, <1>10, <1>11, <1>12,
     <1>13, <1>14, <1>15, <1>16, <1>17, <1>18, <1>19, <1>20, <1>21, <1>22,
     <1>23, <1>24, <1>25, <1>26, <1>27, <1>28, <1>29, <1>30, <1>31, <1>32,
     <1>33, <1>34, <1>35, <1>36, <1>37, <1>38, <1>39
     DEF Next, Request, HandlerStep

-----------------------------------------------------------------------------
\* The statements that write group_members.
LEMMA RoleWriters ==
    [Next]_vars =>
        \/ UNCHANGED role
        \/ \E u \in Users :
              \/ \E M \in SUBSET Users : CreateGroup(u, M) \/ CreateGroupFails(u, M)
              \/ AddMember(u) \/ RemoveMember(u) \/ UpdateRole(u) \/ DeleteGroup(u)
BY DEF Next, Request, HandlerStep, vars, tables, RequestKey, RequestLeave,
       RequestInfo, RequestMessage, RequestDelete, CreateReply, LookupMember,
       SaveKey, Announce, CheckTarget, RefuseTarget, DeleteReceiptsForMember,
       TellLeft, CheckAdmin, RefuseRevoke, GetKey, RefuseKey, FindGroup, Reply,
       FanOutDone, SaveMessage, Snapshot, InsertReceiptRows, CollectMembers,
       HandlerThrows, RequestAdd, RequestKick, RequestGrant, RequestRevoke,
       Invite, FanOut, TellDeleted

-----------------------------------------------------------------------------
\* The inductive invariant of the group.
LEMMA GroupInvariant == Spec => [](GroupInv /\ CreatorSpared)
<1>1. GroupInv /\ CreatorSpared /\ [Next]_vars => (GroupInv /\ CreatorSpared)'
  BY TypeStep, RowsStep, SparedStep DEF GroupInv
<1> QED
  BY <1>1, GroupInit, PTL DEF Spec

(***************************************************************************)
(* Every variable keeps the type of its C++ or SQL counterpart.            *)
(***************************************************************************)
THEOREM GroupTypes == Spec => []TypeOK
<1>1. GroupInv => TypeOK
  BY DEF GroupInv
<1> QED
  BY <1>1, GroupInvariant, PTL

(***************************************************************************)
(* A deleted group leaves no row, whichever handlers were under way when   *)
(* the DELETE cascaded, and also when statements fail.                     *)
(***************************************************************************)
THEOREM NothingOutlivesGroup == Spec => []NoOrphans
<1>1. GroupInv => NoOrphans
  BY DEF GroupInv, NoRows, NoOrphans
<1> QED
  BY <1>1, GroupInvariant, PTL

(***************************************************************************)
(* The check of targetRole holds good until the row is deleted: no leave   *)
(* and no kick ever removes a creator.                                     *)
(***************************************************************************)
THEOREM CreatorSafe == Spec => CreatorNotRemoved
<1> DEFINE A == \A m \in Users :
                  role[m] = "creator" /\ role'[m] = "none" => group' = "deleted"
<1>1. GroupInv /\ CreatorSpared /\ [Next]_vars => [A]_vars
  <2> SUFFICES ASSUME GroupInv, CreatorSpared, [Next]_vars, NEW m \in Users,
                      role[m] = "creator", role'[m] = "none"
               PROVE  group' = "deleted"
    BY DEF vars, tables
  <2>1. ASSUME NEW u \in Users, NEW M \in SUBSET Users, CreateGroup(u, M)
        PROVE  FALSE
    BY <2>1 DEF CreateGroup, GroupInv, NoRows, Members
  <2>2. ASSUME NEW u \in Users, NEW M \in SUBSET Users, CreateGroupFails(u, M)
        PROVE  FALSE
    BY <2>2 DEF CreateGroupFails, GroupInv, NoRows, Members
  <2>3. ASSUME NEW u \in Users, AddMember(u) PROVE FALSE
    BY <2>3 DEF AddMember, GroupInv, TypeOK
  <2>4. ASSUME NEW u \in Users, RemoveMember(u) PROVE FALSE
    BY <2>4 DEF RemoveMember, DeleteKeyRow, DeleteMemberRow, GroupInv, TypeOK,
                CreatorSpared
  <2>5. ASSUME NEW u \in Users, UpdateRole(u) PROVE FALSE
    BY <2>5 DEF UpdateRole, GroupInv, TypeOK
  <2>6. ASSUME NEW u \in Users, DeleteGroup(u) PROVE group' = "deleted"
    BY <2>6 DEF DeleteGroup
  <2> QED
    BY <2>1, <2>2, <2>3, <2>4, <2>5, <2>6, RoleWriters
<1> QED
  BY <1>1, GroupInvariant, PTL DEF Spec, CreatorNotRemoved

(***************************************************************************)
(* Key recovery works for every member once the handlers about it are      *)
(* done, whichever adds, leaves, kicks and deletions overlap: a member     *)
(* without a key row comes only from a CREATE_GROUP that brought no key    *)
(* for it, or from a fault between the statements of the two rows.         *)
(***************************************************************************)
THEOREM MembersHaveKeys == Spec => []MemberHasKey
<1>1. Init => MemberHasKey
  BY DEF Init, MemberHasKey, Members
<1>2. GroupInv /\ MemberHasKey /\ [Next]_vars => MemberHasKey'
  BY KeyStep
<1> QED
  BY <1>1, <1>2, GroupInvariant, PTL DEF Spec
=============================================================================
