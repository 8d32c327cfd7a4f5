CONSTANTS
  N = 6
  Forests <- SmallForests
  Plans <- AllPlans
  Complete = {"intersect", "union", "except", "descendant", "descendant_or_self", "ancestor", "ancestor_or_self", "parent_of_attribute", "child"}
  Ordered = {"intersect", "union", "except", "descendant", "descendant_or_self", "ancestor", "ancestor_or_self", "parent_of_attribute", "attribute", "child", "attribute_or_child"}
SPECIFICATION Spec
PROPERTY ImplementsIterator
