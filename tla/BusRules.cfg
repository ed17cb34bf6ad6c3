SPECIFICATION Spec
CONSTANTS
  Publishers = {p1, p2}
  MaxTopics = 2
  TopicIds = {a, b, c}
  NoTopic = NoTopic
  Keys = {1, 2, 3}
  Rules <- DistinctRules
INVARIANTS TypeOK TopicsUnique
PROPERTY RulesFireExactly
SYMMETRY Symmetry
