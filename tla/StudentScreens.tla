--------------------------- MODULE StudentScreens ---------------------------
(***************************************************************************)
(* The screens of a student (src/frontend/app/student).  The endpoints     *)
(* return the student's own rows; the own profile is looked up in the list *)
(* of students, which holds nothing else.                                  *)
(***************************************************************************)
EXTENDS Screens

StudentLayout == {"platform_branding"}
StudentHeader == {"my_region_settings", "notifications"}

StudentDashboardPage ==
  Page({"notifications", "lessons", "students", "student_group_memberships", "assignments", "submissions",
        "exams", "attendance", "student_grade_summary", "my_region_settings"}, {})

StudentGroupsPage == Page({"group_members", "groups", "courses", "lessons"}, {})

StudentSchedulePage == Page({"lessons"}, {})

StudentAttendancePage == Page({"students", "attendance"}, {})

StudentExamsPage == Page({"students", "exams", "examResults"}, {})

StudentGradesPage == Page({"student_grade_summary"}, {})

StudentHomeworkPage ==
  Page({"students", "student_group_memberships", "assignments", "submissions"}, {"createSubmission"})

\* A student may pay an invoice at a gateway, and make the month's invoice of a
\* group that has none yet.
StudentPaymentsPage ==
  Page({"my_region_settings", "invoices", "payments", "gateway_accounts", "group_members", "groups"},
       {"initiateCheckout", "createSelfInvoice"})

StudentProfilePage ==
  LET keys == {"students", "student_parents", "group_members", "groups", "attendance",
               "student_grade_summary", "exams", "invoices"} IN
  [view |-> Page(keys, {}),
   edit |-> EditOver("Profile", {}, "updateStudent", [students |-> "row"])]

StudentNotificationsPage == Page({"notifications"}, {"markNotificationRead"})

AccountTab == FormPage({"students", "my_region_settings"}, {}, "updateStudent", [students |-> "once"])

StudentSettingsPage ==
  [security      |-> Page({"students", "my_region_settings"}, {"changePassword"}),
   notifications |-> Page({"students", "my_region_settings", "telegram"}, {"updateMyTelegram"}),
   language      |-> FormPage({"students", "my_region_settings"}, {}, "updateMyRegionSettings",
                              [my_region_settings |-> "once"])]

StudentScreens ==
  [Dashboard |-> StudentDashboardPage, Groups |-> StudentGroupsPage, Schedule |-> StudentSchedulePage,
   Attendance |-> StudentAttendancePage, Exams |-> StudentExamsPage, Grades |-> StudentGradesPage,
   Homework |-> StudentHomeworkPage, Payments |-> StudentPaymentsPage,
   Profile |-> StudentProfilePage.view, EditProfile |-> StudentProfilePage.edit,
   Notifications |-> StudentNotificationsPage, Account |-> AccountTab, Security |-> StudentSettingsPage.security,
   Telegram |-> StudentSettingsPage.notifications, Language |-> StudentSettingsPage.language]
=============================================================================
