SPECIFICATION Spec
CHECK_DEADLOCK FALSE
CONSTANTS
  tech = tech
  food = food
  s1 = s1
  s2 = s2
  s3 = s3
  p1 = p1
  p2 = p2
  p3 = p3
  Brand <- MCBrand
  Story <- MCStory
  Pulse <- MCPulse
  Topic = {p1, p2, p3, s1, s2, s3}
  Sourced = {p1, p2, s1, s2, s3}
  BrandKey <- MCKey
  StoryId <- MCId
  Profiles <- MCProfiles
  PerBrand = 2
  TopN = 2
  Slots = 2
  Attempts = 3
  Rounds = 2
  Minimum = 3
  Provider = {"resend", "sendgrid", "smtp", "null"}
  MailTries = 3
PROPERTIES
  OneTopicCostsOneTopic
