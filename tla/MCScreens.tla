------------------------------ MODULE MCScreens -----------------------------
(***************************************************************************)
(* The tables of the four portals put together, as the instance of         *)
(* QueryCache.  A screen is <<portal, name>>.                              *)
(***************************************************************************)
EXTENDS QueryCache, Queries

Admin == INSTANCE AdminScreens
Teacher == INSTANCE TeacherScreens
Student == INSTANCE StudentScreens
SuperAdmin == INSTANCE SuperAdminScreens

Portals == {"admin", "teacher", "student", "super-admin"}

\* The screens of a portal, and what its layout and header have mounted.
Table ==
  "admin" :> Admin!AdminScreens @@ "teacher" :> Teacher!TeacherScreens
  @@ "student" :> Student!StudentScreens @@ "super-admin" :> SuperAdmin!SuperAdminScreens

Layout ==
  "admin" :> Admin!AppShell \cup Admin!Header
  @@ "teacher" :> Teacher!TeacherLayout \cup Teacher!TeacherHeader
  @@ "student" :> Student!StudentLayout \cup Student!StudentHeader
  @@ "super-admin" :> SuperAdmin!SuperAdminLayout \cup SuperAdmin!SuperAdminHeader

MCScreensOf == [p \in Portals |-> {p} \X DOMAIN Table[p]]
MCScreen == UNION {MCScreensOf[p] : p \in Portals}
Described(s) == Table[s[1]][s[2]]

MCBehind ==
  [s \in MCScreen |-> IF Described(s).behind = "" THEN s ELSE <<s[1], Described(s).behind>>]

\* A panel may lie over a panel over a page: each leaves what is below it mounted.
MCWatches ==
  LET below == [s \in MCScreen |-> Described(s).watches \cup Described(MCBehind[s]).watches] IN
  [s \in MCScreen |-> below[s] \cup below[MCBehind[s]] \cup below[MCBehind[MCBehind[s]]] \cup Layout[s[1]]]

MCOffers == [s \in MCScreen |-> Described(s).offers]
MCForm == [s \in MCScreen |-> Described(s).form]

MCReads ==
  StudentReads @@ TeacherReads @@ UserReads @@ CourseReads @@ GroupReads @@ LessonReads @@ AttendanceReads
  @@ ExamReads @@ ExamResultReads @@ AssignmentReads @@ SubmissionReads @@ InvoiceReads @@ PaymentReads
  @@ GroupBillingReads @@ ExpenseReads @@ PayrollReads @@ GradeReads @@ ReportReads @@ NotificationReads
  @@ TelegramReads @@ GatewayReads @@ RegionReads @@ OrganizationReads @@ BranchReads @@ AdministratorReads
  @@ RoleReads @@ PlanReads @@ PlatformInvoiceReads @@ PlatformPaymentReads @@ AuditReads @@ SettingsReads
  @@ BackupReads @@ ApiKeyReads @@ SessionReads

MCAlters ==
  StudentAlters @@ TeacherAlters @@ UserAlters @@ CourseAlters @@ GroupAlters @@ LessonAlters
  @@ AttendanceAlters @@ ExamAlters @@ ExamResultAlters @@ AssignmentAlters @@ SubmissionAlters
  @@ InvoiceAlters @@ PaymentAlters @@ GroupPaymentAlters @@ ExpenseAlters @@ PayrollAlters
  @@ NotificationAlters @@ TelegramAlters @@ GatewayAlters @@ RegionAlters @@ OrganizationAlters
  @@ BranchAlters @@ AdministratorAlters @@ PlanAlters @@ PlatformInvoiceAlters @@ PlatformPaymentAlters
  @@ SettingsAlters @@ BackupAlters @@ ApiKeyAlters @@ SessionAlters

MCKey == DOMAIN MCReads
MCMutation == DOMAIN MCAlters
MCResource == UNION {MCReads[k] : k \in MCKey} \cup UNION {MCAlters[m] : m \in MCMutation}

Refreshed ==
  StudentRefreshes @@ TeacherRefreshes @@ UserRefreshes @@ CourseRefreshes @@ GroupRefreshes
  @@ LessonRefreshes @@ AttendanceRefreshes @@ ExamRefreshes @@ HomeworkRefreshes @@ InvoiceRefreshes
  @@ GroupPaymentRefreshes @@ ExpenseRefreshes @@ PayrollRefreshes @@ NotificationRefreshes
  @@ GatewayRefreshes @@ RegionRefreshes @@ OrganizationRefreshes @@ BranchRefreshes
  @@ AdministratorRefreshes @@ PlanRefreshes @@ PlatformBillingRefreshes @@ SettingsRefreshes
  @@ BackupRefreshes @@ ApiKeyRefreshes @@ SessionRefreshes

Rewritten == Admin!AdminSetsByHand @@ Admin!TelegramSetsByHand

\* A save that is in neither table of a kind does nothing of that kind.
Entry(table, m) == IF m \in DOMAIN table THEN table[m] ELSE {}

MCRefreshes == [m \in MCMutation |-> Entry(Refreshed, m)]
MCSetsByHand == [m \in MCMutation |-> Entry(Rewritten, m)]
\* The profile page of a teacher alone.
ProfileOnly == "teacher" :> {<<"teacher", "Profile">>, <<"teacher", "EditProfile">>}

-----------------------------------------------------------------------------
(* What the hooks leave: the keys a save of some portal changes, and its    *)
(* hook neither invalidates nor writes.  They stay stale until staleTime    *)
(* has passed and the key is mounted or the window focused again.           *)

\* No hook of another area knows of a grade summary or a report.
Summaries == DOMAIN GradeReads \cup DOMAIN ReportReads

Left ==
  LET people == {"courses", "courses_page", "group_billing", "group_billing_detail"}
      enrolled == people \cup {"student_group_memberships", "assignments", "assignments_page"}
      bills == {"group_billing", "group_billing_detail"}
      centers == {"organizations", "organizations_page"} IN
  [createStudent |-> {"branches"}, deleteStudent |-> {"branches"}, updateStudent |-> {"user_student"},
   createTeacher |-> {"branches"}, deleteTeacher |-> {"branches"}, updateTeacher |-> {"user_teacher"},
   updateCourse |-> {"groups", "groups_page"},
   createGroup |-> people \ {"group_billing_detail"}, deleteGroup |-> people \ {"group_billing_detail"},
   updateGroup |-> (people \ {"group_billing_detail"}) \cup {"lessons"},
   addGroupMember |-> enrolled, removeGroupMember |-> enrolled,
   createInvoice |-> bills, deleteInvoice |-> bills, createSelfInvoice |-> bills, createPayment |-> bills,
   createBranch |-> centers, deleteBranch |-> centers,
   createOrganization |-> {"subscription_plans"}, updateOrganization |-> {"subscription_plans"},
   suspendOrganization |-> {"subscription_plans"}, deleteOrganization |-> {"subscription_plans"},
   updateSubscriptionPlan |-> {"organizations_page"}]

\* The list holds nothing else.
ASSUME LeftIsExact ==
  \A m \in DOMAIN Left : \A k \in Left[m] :
    MCReads[k] \cap MCAlters[m] # {} /\ k \notin MCRefreshes[m] \cup MCSetsByHand[m]

MCGaps == [m \in MCMutation |-> Summaries \cup Entry(Left, m)]
=============================================================================
