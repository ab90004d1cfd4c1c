--------------------------- MODULE TeacherScreens ---------------------------
(***************************************************************************)
(* The screens of a teacher (src/frontend/app/teacher).  A teacher's own   *)
(* profile is looked up in the list of teachers.                           *)
(***************************************************************************)
EXTENDS Screens

TeacherLayout == {"platform_branding"}
TeacherHeader == {"my_region_settings", "notifications"}

TeacherDashboardPage ==
  Page({"teachers", "notifications", "groups", "group_members", "attendance", "exams", "my_region_settings"}, {})

TeacherGroupsPage == Page({"teachers", "groups"}, {})

StudentsTab == Over("Groups", {"group_members", "attendance"}, {})
AttendanceTab == Over("Groups", {"attendance"}, {})
HomeworkTab == Over("Groups", {"assignments"}, {})
GradesTab == Over("Groups", {"teacher_grade_summary"}, {})

TeacherStudentsPage == Page({"teachers", "groups", "group_members", "attendance"}, {})

\* The marks of a session. What the teacher types before saving is no form here:
\* every row is saved by a call of its own.
TeacherAttendancePage ==
  Page({"teachers", "groups", "group_members", "attendance"}, {"createAttendance", "updateAttendance"})

AssignmentsPage ==
  [list   |-> Page({"teachers", "groups", "assignments"}, {}),
   create |-> Over("Assignments", {}, {"createAssignment"}),
   edit   |-> EditOver("Assignments", {}, "updateAssignment", [assignments |-> "row"])]

SubmissionsPanel == Over("Assignments", {"submissions", "group_members"}, {"gradeSubmission"})

\* An exam is cancelled or completed from the list.
ExamsPage ==
  [list   |-> Page({"teachers", "groups", "exams", "examResults"}, {"updateExam"}),
   create |-> Over("Exams", {}, {"createExam"}),
   edit   |-> EditOver("Exams", {}, "updateExam", [exams |-> "row"])]

ResultsPanel == Over("Exams", {"group_members", "examResults"}, {"saveExamResult"})

GradesPage == Page({"groups", "teacher_grade_summary"}, {})

TeacherSchedulePage == Page({"lessons", "my_region_settings"}, {})

LessonDetailDialog == Over("Schedule", {}, {"updateLesson"})

LessonFormFields == Over("Schedule", {"teachers", "groups"}, {"createLesson"})

TeacherSalaryPage == Page({"teachers", "teacher_salaries"}, {})

\* The profile page; its form takes the account record and the profile the page
\* shows when editing starts.
ProfilePage ==
  LET keys == {"teachers", "user_teacher", "teacher_specializations", "groups", "group_members"} IN
  [view |-> Page(keys, {}),
   edit |-> EditOver("Profile", {}, "updateTeacher", [user_teacher |-> "row", teachers |-> "row"])]

NotificationsPage == Page({"notifications"}, {"markNotificationRead"})

\* The tabs of the settings: the account form and the region form take their
\* values once, the security tab changes the password.
AccountTab == FormPage({"teachers", "my_region_settings"}, {}, "updateTeacher", [teachers |-> "once"])

TeacherSettingsPage ==
  [security      |-> Page({"teachers", "my_region_settings"}, {"changePassword"}),
   notifications |-> Page({"teachers", "my_region_settings", "telegram"}, {"updateMyTelegram"}),
   language      |-> FormPage({"teachers", "my_region_settings"}, {}, "updateMyRegionSettings",
                              [my_region_settings |-> "once"])]

TeacherScreens ==
  [Dashboard |-> TeacherDashboardPage, Groups |-> TeacherGroupsPage, GroupStudents |-> StudentsTab,
   GroupAttendance |-> AttendanceTab, GroupHomework |-> HomeworkTab, GroupGrades |-> GradesTab,
   Students |-> TeacherStudentsPage, Attendance |-> TeacherAttendancePage,
   Assignments |-> AssignmentsPage.list, NewAssignment |-> AssignmentsPage.create,
   EditAssignment |-> AssignmentsPage.edit, Submissions |-> SubmissionsPanel,
   Exams |-> ExamsPage.list, NewExam |-> ExamsPage.create, EditExam |-> ExamsPage.edit,
   ExamResults |-> ResultsPanel, Grades |-> GradesPage,
   Schedule |-> TeacherSchedulePage, LessonDetail |-> LessonDetailDialog, NewLesson |-> LessonFormFields,
   Salary |-> TeacherSalaryPage, Profile |-> ProfilePage.view, EditProfile |-> ProfilePage.edit,
   Notifications |-> NotificationsPage, Account |-> AccountTab, Security |-> TeacherSettingsPage.security,
   Telegram |-> TeacherSettingsPage.notifications, Language |-> TeacherSettingsPage.language]
=============================================================================
