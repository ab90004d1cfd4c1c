-------------------------- MODULE SuperAdminScreens -------------------------
(***************************************************************************)
(* The screens of the platform's administrators                            *)
(* (src/frontend/app/super-admin).  The forms of these pages open in the   *)
(* page itself and close when their save has succeeded.                    *)
(***************************************************************************)
EXTENDS Screens

SuperAdminLayout == {"platform_branding"}
SuperAdminHeader == {"my_region_settings", "notifications"}

SuperAdminDashboardPage ==
  Page({"organizations", "branches", "students", "teachers", "administrators", "platform_payments", "audit_logs"}, {})

CentersPage ==
  LET keys == {"organizations", "organizations_page", "subscription_plans"} IN
  [list   |-> Page(keys, {"suspendOrganization", "deleteOrganization"}),
   create |-> Over("Centers", {}, {"createOrganization"}),
   edit   |-> EditOver("Centers", {}, "updateOrganization", [organizations_page |-> "row"])]

BranchesPage ==
  LET keys == {"organizations", "branches", "branches_page"} IN
  [list   |-> Page(keys, {"suspendBranch", "deleteBranch"}),
   create |-> Over("Branches", {}, {"createBranch"}),
   edit   |-> EditOver("Branches", {}, "updateBranch", [branches_page |-> "row"])]

AdministratorsPage ==
  LET keys == {"organizations", "branches", "roles", "administrators", "administrators_page"} IN
  [list   |-> Page(keys, {"suspendAdministrator", "deleteAdministrator"}),
   create |-> Over("Administrators", {}, {"createAdministrator"}),
   edit   |-> EditOver("Administrators", {}, "updateAdministrator", [administrators_page |-> "row"])]

SuperAdminStudentsPage == Page({"organizations", "students", "students_page"}, {})

\* A teacher is suspended or reinstated from the list.
SuperAdminTeachersPage == Page({"organizations", "teachers", "teachers_page"}, {"updateTeacher"})

SuperAdminExamsPage == Page({"organizations", "exams", "examResults"}, {})

ExamResultsView == Over("Exams", {"examResults"}, {})

SuperAdminHomeworkPage == Page({"organizations", "assignments"}, {})

SubmissionsDetail == Over("Homework", {"submissions"}, {})

SubscriptionsPage ==
  [list   |-> Page({"subscription_plans"}, {"deleteSubscriptionPlan"}),
   create |-> Over("Subscriptions", {}, {"createSubscriptionPlan"}),
   edit   |-> EditOver("Subscriptions", {}, "updateSubscriptionPlan", [subscription_plans |-> "row"])]

PaymentsPage ==
  Page({"platform_invoices", "platform_invoices_page", "platform_payments", "organizations", "subscription_plans"},
       {"createPlatformInvoice", "deletePlatformInvoice", "createPlatformPayment"})

SuperAdminReportsPage == Page({"organizations", "branches", "students", "platform_payments"}, {})

AuditLogsPage == Page({"organizations", "audit_logs"}, {})

SuperAdminNotificationsPage == Page({"notifications"}, {"markNotificationRead"})

\* Name and phone are taken once per account; the picture, the password and the
\* sessions have buttons of their own.
SuperAdminProfilePage ==
  FormPage({"user_self", "sessions", "audit_logs"}, {"changePassword", "revokeSession"}, "updateSelf",
           [user_self |-> "once"])

\* One buffer per section of the settings, all seeded once; a save writes the
\* section that is open.
SystemSettingsPage ==
  FormPage({"platform_settings"}, {}, "updatePlatformSettings", [platform_settings |-> "once"])

EmailPanel == Over("Settings", {}, {"testEmailSettings"})
SMSPanel == Over("Settings", {}, {"testSmsSettings"})
BackupPanel == Over("Settings", {"platform_backups"}, {"runPlatformBackup"})
APIKeysPanel == Over("Settings", {"api_keys"}, {"createApiKey", "rotateApiKey", "revokeApiKey"})

SuperAdminScreens ==
  [Dashboard |-> SuperAdminDashboardPage,
   Centers |-> CentersPage.list, NewCenter |-> CentersPage.create, EditCenter |-> CentersPage.edit,
   Branches |-> BranchesPage.list, NewBranch |-> BranchesPage.create, EditBranch |-> BranchesPage.edit,
   Administrators |-> AdministratorsPage.list, NewAdministrator |-> AdministratorsPage.create,
   EditAdministrator |-> AdministratorsPage.edit,
   Students |-> SuperAdminStudentsPage, Teachers |-> SuperAdminTeachersPage,
   Exams |-> SuperAdminExamsPage, ExamResults |-> ExamResultsView,
   Homework |-> SuperAdminHomeworkPage, Submissions |-> SubmissionsDetail,
   Subscriptions |-> SubscriptionsPage.list, NewPlan |-> SubscriptionsPage.create,
   EditPlan |-> SubscriptionsPage.edit,
   Payments |-> PaymentsPage, Reports |-> SuperAdminReportsPage, AuditLogs |-> AuditLogsPage,
   Notifications |-> SuperAdminNotificationsPage, Profile |-> SuperAdminProfilePage,
   Settings |-> SystemSettingsPage, Email |-> EmailPanel, SMS |-> SMSPanel, Backup |-> BackupPanel,
   APIKeys |-> APIKeysPanel]
=============================================================================
